---- MODULE Spec2Model ----
(***************************************************************************)
(* Process supervision of src-tauri/src/process.rs:                        *)
(*   kill_process_tree(pid)   (the spec's kill_tree)                       *)
(*   detect_port_by_pid(pid)  (the spec's find_port)                       *)
(* The operating system is the environment: a process table with parent    *)
(* links, and the external utilities ps, pgrep, kill and lsof, each of     *)
(* which may fail to run or return text that is not UTF-8.                 *)
(***************************************************************************)
EXTENDS Integers, Sequences, FiniteSets, TLC

\* ------------------------------------------------------------------ bounds
\* PIDs of the process table are 1..MaxPid; PID 1 is the OS init process.
MaxPid == 7
\* The PID of the supervising application (std::process::id()).
SelfPid == 4
\* A process p was forked by one of the MaxBack processes created before it.
MaxBack == 2
\* How many times an external utility may misbehave during one call.
MaxFaults == 2
\* How many lines that name no child the children listings of one call may hold.
MaxNoise == 1

\* Threads that call get_runtime_version, and calls they make in all.
MaxCallers == 2

MaxCalls == 3

Callers == 1..MaxCallers

\* The runtime names of the calls: the three that are detected and one other.
Runtimes == {"Node.js", "Deno", "Bun", "Unknown"}

\* ------------------------------------------------------- program constants
\* `for _level in 0..4`
MAX_LEVELS == 4

\* ------------------------------------------------------------ environment
Procs == 1..MaxPid
\* A PID that names no process.
NoPid == MaxPid + 1
\* Result of a lookup that produced no number (Option::None).
None == -1

ParentChoices(p) == {q \in 1..(p - 1) : p - q <= MaxBack}

RECURSIVE TreesUpTo(_)
TreesUpTo(n) ==
    IF n = 1 THEN {[p \in {1} |-> 0]}
    ELSE {[p \in 1..n |-> IF p = n THEN q ELSE t[p]] :
              t \in TreesUpTo(n - 1), q \in ParentChoices(n)}

Trees == TreesUpTo(MaxPid)

VARIABLES
    tree,              \* OS: parent PID of every process (0 for init)
    alive,             \* OS: the processes that exist
    faults,            \* environment: utility misbehaviours still allowed
    noiseLeft,         \* environment: wrong lines of pgrep still allowed
    pc,                \* position in kill_process_tree
    pid,               \* the argument of the call (the root)
    all_pids,          \* Vec: discovery order, root first
    current_level,     \* Vec: the frontier being queried
    next_level,        \* Vec: the frontier being built
    level,             \* _level of the walk loop
    idx,               \* position of parent_pid in current_level
    seen_pids,         \* HashSet of discovered PIDs
    ancestor_pids,     \* HashSet: the AncestorSet of this call
    current_ancestor,  \* cursor of the ancestor walk
    ki,                \* position in the kill pass
    result,            \* the value the call returned
    killLog,           \* history: every kill attempt, in order
    pgrepLog,          \* history: every children query, in order
    disc,              \* history: for all_pids[i], who listed it and at what depth
    rootExisted,       \* history: did root exist when the call started
    walkFault,         \* history: failure of a children query
    lookupFault,       \* history: a parent lookup of the ancestor walk failed
    noisy,             \* history: a children listing reported a PID that is no child
    listen,            \* OS: the TCP port each process listens on (0: none)
    port,              \* detect_port_by_pid: the Option<u16> returned
    all_child_pids,    \* HashSet of the descendants found
    current_level_pids,    \* Vec: the frontier being queried
    next_level_pids,       \* Vec: the frontier being built
    child_pids_for_check,  \* the part of the Vec not yet iterated
    port_idx,          \* position of test_port in test_ports
    pid_lines,         \* lines of `lsof -ti` not yet looked at
    chain_pid,         \* current_pid of the parent-chain loop
    depth,             \* _depth of the parent-chain loop
    lsofLog,           \* history: every `lsof -p` made, with its output
    probed,            \* history: number of well-known ports queried
    junkLeft           \* environment: malformed lsof lines still allowed

\* validation.rs and process_logs.rs
VARIABLES
    v_command,         \* validate_command: the argument
    v_result,          \* validate_command: the value returned
    SHELL,             \* environment: Option, the value of $SHELL
    macos,             \* build: cfg(target_os = "macos")
    s_pc,              \* position of spawn_process_with_logs
    command,           \* the request: command name
    args,              \* the request: argument list
    cwd,               \* the request: working directory
    shells,            \* Vec of (path, source_command)
    index,             \* position of the shell loop
    preferred_shell,   \* Option: path of the first candidate
    used_shell,        \* Option: path of the candidate that spawned
    preferred_shell_failed,
    last_error,        \* Option: the candidate of the last failed spawn call
    spawned_pid,       \* child.id() (None: no child)
    s_result,          \* the value the call returned
    attempts,          \* history: the positions whose spawn call was made
    children,          \* history: the positions whose spawn call created a child
    fallbackEvents,    \* history: emits of process-shell-fallback
    outEvents,         \* history: process-stdout events delivered
    errEvents,         \* history: process-stderr events delivered
    termEvents,        \* history: emits of process-exit / process-exit-error
    childState,        \* OS: the child: none, running, exited
    outWritten,        \* OS: lines the child has written to stdout
    errWritten,        \* OS: lines the child has written to stderr
    outReader,         \* thread process-stdout-PID: none, running, done
    errReader,         \* thread process-stderr-PID: none, running, done
    outRead,           \* lines the stdout reader has taken from the pipe
    errRead,           \* lines the stderr reader has taken from the pipe
    warnThread,        \* thread of the fallback warning: none, pending, done
    waiter             \* thread process-wait-PID: none, waiting, done

\* validation.rs: validate_command_args
VARIABLES
    va_args,           \* validate_command_args: the argument
    va_result          \* validate_command_args: the value returned

\* process_logs.rs: shell_quote
VARIABLES
    sq_s,              \* shell_quote: the argument
    sq_result          \* shell_quote: Option, the String returned

\* process.rs: a second call of detect_port_by_pid
VARIABLES
    first_call         \* history: root, result and port of the first of two calls

\* port.rs: detect_port
VARIABLES
    dp_path,           \* detect_port: the project directory that path names
    dp_result          \* detect_port: Option<u16> returned, or NotCalled

\* project_info.rs: get_runtime_version
VARIABLES
    RUNTIME_VERSION_CACHE, \* HashMap<String, Option<String>>, by what get(name) gives
    rv_pc,             \* per caller: idle, detect, insert
    runtime,           \* per caller: the argument
    version,           \* per caller: Option, the version detected
    rv_returned,       \* per caller: Option of Option, the value last returned
    rv_calls,          \* calls made so far
    rv_writes,         \* history: per runtime name, inserts into the cache
    rv_overlap         \* history: per runtime name, a lookup missed while another
                       \* call for the name was between its lookup and its insert

killVars == <<pc, pid, all_pids, current_level, next_level, level, idx, seen_pids,
              ancestor_pids, current_ancestor, ki, result, killLog, pgrepLog, disc,
              rootExisted, walkFault, lookupFault, noisy>>
envVars == <<tree, alive, faults, noiseLeft>>
\* What only kill_process_tree uses.
killOnly == <<all_pids, current_level, next_level, seen_pids, ancestor_pids,
              current_ancestor, ki, killLog, disc, rootExisted, lookupFault, noisy>>
\* What only detect_port_by_pid uses.
portVars == <<listen, port, all_child_pids, current_level_pids, next_level_pids,
              child_pids_for_check, port_idx, pid_lines, chain_pid, depth, lsofLog,
              probed, junkLeft>>
argsVars == <<va_args, va_result>>
\* What the functions that are called on their own use.
quoteVars == <<sq_s, sq_result>>
cacheVars == <<RUNTIME_VERSION_CACHE, rv_pc, runtime, version, rv_returned, rv_calls,
               rv_writes, rv_overlap>>
\* What detect_port (port.rs) uses.
staticVars == <<dp_path, dp_result>>
utilVars == <<argsVars, quoteVars, cacheVars, first_call, staticVars>>
validateVars == <<v_command, v_result, utilVars>>
spawnVars == <<SHELL, macos, s_pc, command, args, cwd, shells, index, preferred_shell,
               used_shell, preferred_shell_failed, last_error, spawned_pid, s_result,
               attempts, children, fallbackEvents, outEvents, errEvents, termEvents,
               childState, outWritten, errWritten, outReader, errReader, outRead,
               errRead, warnThread, waiter>>
launcherVars == <<validateVars, spawnVars>>
vars == <<envVars, killVars, portVars, launcherVars>>

\* ---------------------------------------------------------------- helpers
RECURSIVE SortedSeq(_)
SortedSeq(S) ==
    IF S = {} THEN <<>>
    ELSE LET m == CHOOSE x \in S : \A y \in S : x <= y
         IN <<m>> \o SortedSeq(S \ {m})

Range(s) == {s[i] : i \in 1..Len(s)}

Reverse(s) == [i \in 1..Len(s) |-> s[Len(s) + 1 - i]]

\* The real children of p, as `pgrep -P p` prints them (ascending PID).
Children(p) == {c \in alive : tree[c] = p}

\* The real descendants of p at distance 1..d.
RECURSIVE DescWithin(_, _)
DescWithin(S, d) ==
    IF d = 0 THEN {}
    ELSE LET kids == UNION {Children(p) : p \in S}
         IN kids \cup DescWithin(kids, d - 1)

AllDesc(p) == DescWithin({p}, MaxPid)

\* The supervisor's real parent chain below init.
RECURSIVE ChainUp(_)
ChainUp(p) == IF p <= 1 THEN {} ELSE {p} \cup ChainUp(tree[p])

RealAncestors == ChainUp(tree[SelfPid])

\* std::process::id()
current_pid == SelfPid

\* std::os::unix::process::parent_id()
parent_id == tree[SelfPid]

\* ------------------------------------------------------ kill_process_tree
walkVars == <<all_pids, current_level, next_level, level, idx, seen_pids, disc>>
ancVars == <<ancestor_pids, current_ancestor>>

\* line.trim().parse::<u32>().ok(): a line of pgrep is a PID or garbage (None)
ParsesU32(line) == line >= 0

IsNew_NoDedupe(child_pid, seen) == TRUE

\* seen_pids.insert(child_pid) is true exactly for a PID not yet in the set
IsNew(child_pid, seen) == child_pid \notin seen

\* The filter_map/filter chain over the lines of one pgrep output.
RECURSIVE NewChildren(_, _)
NewChildren(lines, seen) ==
    IF lines = <<>> THEN <<>>
    ELSE LET l == Head(lines)
         IN IF ParsesU32(l) /\ IsNew(l, seen)
            THEN <<l>> \o NewChildren(Tail(lines), seen \cup {l})
            ELSE NewChildren(Tail(lines), seen)

WalkContinues_OneLevelShort(lvl, next) == next # <<>> /\ lvl + 2 < MAX_LEVELS

\* The walk goes on to another level.
WalkContinues(lvl, next) == next # <<>> /\ lvl + 1 < MAX_LEVELS

KillOrder_Forward(s) == s

\* The order of the kill pass: all_pids.iter().rev()
KillOrder(s) == Reverse(s)

Excluded_SelfOnly(process_pid) == process_pid = current_pid

\* The safety check of the kill pass.
Excluded(process_pid) == process_pid = current_pid \/ process_pid \in ancestor_pids

\* The guard of the verification after the grace period.
VerifyNeeded(p) == p # current_pid /\ p \notin ancestor_pids

PsSuccess_StatusIgnored(p) == TRUE

\* Does the status of `ps -p pid` say that the process exists.
PsSuccess(p) == p \in alive

\* The match on the parent lookup: go on to ppid, or stop.
ValidParent(ppid, cur) == ppid # None /\ ppid # cur /\ ppid # 0

\* A failed kill of the main process fails the call.
KillFails(ran, success, process_pid) == ran /\ ~success /\ process_pid = pid

\* The utilities may fail; the children listings are exact.
InitEnv ==
    /\ tree \in Trees
    /\ alive = Procs
    /\ faults = MaxFaults
    /\ noiseLeft = 0

\* The utilities never fail; the children listings may hold wrong lines.
InitEnvNoisy ==
    /\ tree \in Trees
    /\ alive = Procs
    /\ faults = 0
    /\ noiseLeft = MaxNoise

InitKill ==
    /\ pc = "idle"
    /\ pid = 0
    /\ all_pids = <<>>
    /\ current_level = <<>>
    /\ next_level = <<>>
    /\ level = 0
    /\ idx = 0
    /\ seen_pids = {}
    /\ ancestor_pids = {}
    /\ current_ancestor = 0
    /\ ki = 0
    /\ result = "none"
    /\ killLog = <<>>
    /\ pgrepLog = <<>>
    /\ disc = <<>>
    /\ rootExisted = FALSE
    /\ walkFault = "none"
    /\ lookupFault = FALSE
    /\ noisy = FALSE

InitArgsOff ==
    /\ va_args = <<>>
    /\ va_result = "none"

InitQuoteOff ==
    /\ sq_s = <<>>
    /\ sq_result = <<>>

\* No call of get_runtime_version has been made; the cache is empty.
InitCacheEmpty ==
    /\ RUNTIME_VERSION_CACHE = [r \in Runtimes |-> <<>>]
    /\ rv_pc = [t \in Callers |-> "idle"]
    /\ runtime = [t \in Callers |-> "Node.js"]
    /\ version = [t \in Callers |-> <<>>]
    /\ rv_returned = [t \in Callers |-> <<>>]
    /\ rv_writes = [r \in Runtimes |-> 0]
    /\ rv_overlap = [r \in Runtimes |-> FALSE]

InitCacheIdle ==
    /\ InitCacheEmpty
    /\ rv_calls = 0

\* The same with no call to come.
InitCacheOff ==
    /\ InitCacheEmpty
    /\ rv_calls = MaxCalls

\* detect_port_by_pid has not returned yet.
NoCall == [root |-> 0, result |-> "none", port |-> None]

\* detect_port is not called: an empty directory, nothing returned.
NotCalled == <<-1>>

NoFile == <<>>

EmptyProject ==
    [framework |-> "unknown", configs |-> <<NoFile, NoFile, NoFile>>, package_json |-> NoFile]

InitStaticOff ==
    /\ dp_path = EmptyProject
    /\ dp_result = NotCalled

InitUtilOff ==
    /\ InitArgsOff
    /\ InitQuoteOff
    /\ InitCacheOff
    /\ first_call = NoCall
    /\ InitStaticOff

\* validate_command is not called.
InitValidateOff ==
    /\ InitUtilOff
    /\ v_command = <<>>
    /\ v_result = "none"

\* The locals of spawn_process_with_logs before a call; no child exists.
InitSpawnIdle ==
    /\ s_pc = "idle"
    /\ command = <<>>
    /\ args = <<>>
    /\ cwd = [empty |-> TRUE, nul |-> FALSE, parent_dir |-> FALSE, too_long |-> FALSE,
              exists |-> FALSE, is_dir |-> FALSE, canonical |-> FALSE]
    /\ shells = <<>>
    /\ index = 0
    /\ preferred_shell = <<>>
    /\ used_shell = <<>>
    /\ preferred_shell_failed = FALSE
    /\ last_error = <<>>
    /\ spawned_pid = None
    /\ s_result = "none"
    /\ attempts = <<>>
    /\ children = <<>>
    /\ fallbackEvents = <<>>
    /\ outEvents = <<>>
    /\ errEvents = <<>>
    /\ termEvents = <<>>
    /\ childState = "none"
    /\ outWritten = 0
    /\ errWritten = 0
    /\ outReader = "none"
    /\ errReader = "none"
    /\ outRead = 0
    /\ errRead = 0
    /\ warnThread = "none"
    /\ waiter = "none"

\* spawn_process_with_logs and validate_command are not called.
InitLauncherOff ==
    /\ InitValidateOff
    /\ InitSpawnIdle
    /\ SHELL = <<>>
    /\ macos = FALSE

\* The locals of detect_port_by_pid before a call.
InitPortIdle ==
    /\ port = None
    /\ all_child_pids = {}
    /\ current_level_pids = <<>>
    /\ next_level_pids = <<>>
    /\ child_pids_for_check = {}
    /\ port_idx = 0
    /\ pid_lines = <<>>
    /\ chain_pid = 0
    /\ depth = 0
    /\ lsofLog = {}
    /\ probed = 0

\* detect_port_by_pid is not called and no process listens.
InitPortOff ==
    /\ InitPortIdle
    /\ listen = [p \in Procs |-> 0]
    /\ junkLeft = 0

Init ==
    /\ InitEnv
    /\ InitKill
    /\ InitPortOff
    /\ InitLauncherOff

\* The caller invokes kill_process_tree(root).
KillTreeCall ==
    /\ pc = "idle"
    /\ \E root \in Procs \cup {NoPid} :
          /\ pid' = root
          /\ rootExisted' = (root \in alive)
    /\ pc' = "check"
    /\ UNCHANGED <<envVars, walkVars, ancVars, ki, result, killLog, pgrepLog,
                   walkFault, lookupFault, noisy>>
    /\ UNCHANGED portVars
    /\ UNCHANGED launcherVars

\* `ps -p pid`: the existence check of the root.
CheckExists ==
    /\ pc = "check"
    /\ \/ \* ps cannot be run: output()? returns the I/O error
          /\ faults > 0
          /\ faults' = faults - 1
          /\ pc' = "done"
          /\ result' = "IoError"
          /\ UNCHANGED walkVars
       \/ \* ps ran and its status is not success
          /\ ~PsSuccess(pid)
          /\ pc' = "done"
          /\ result' = "NotFound"
          /\ UNCHANGED <<faults, walkVars>>
       \/ \* the process exists: set up the walk
          /\ PsSuccess(pid)
          /\ pc' = "walk"
          /\ all_pids' = <<pid>>
          /\ current_level' = <<pid>>
          /\ next_level' = <<>>
          /\ seen_pids' = {pid}
          /\ disc' = <<[by |-> 0, depth |-> 0]>>
          /\ level' = 0
          /\ idx' = 1
          /\ UNCHANGED <<faults, result>>
    /\ UNCHANGED <<tree, alive, noiseLeft, pid, ancVars, ki, killLog, pgrepLog, rootExisted,
                   walkFault, lookupFault, noisy>>
    /\ UNCHANGED portVars
    /\ UNCHANGED launcherVars

\* What `pgrep -P p` can print: the children of p, and on a noisy system one
\* more line: any PID, or text that is no number.
PgrepListings(p) ==
    {SortedSeq(Children(p))}
        \cup (IF noiseLeft > 0
              THEN {SortedSeq(Children(p)) \o <<x>> : x \in Procs \cup {None}}
              ELSE {})

\* The state after the walk loop: the ancestor walk starts at parent_id().
StartAncestors ==
    /\ ancestor_pids' = {}
    /\ current_ancestor' = parent_id
    /\ ki' = 1
    /\ pc' = IF parent_id > 1 THEN "ancestors" ELSE "kill"

\* One `pgrep -P parent_pid` of the walk, with the bookkeeping of both loops.
WalkStep ==
    /\ pc = "walk"
    /\ LET parent_pid == current_level[idx]
       IN \/ \* pgrep cannot be run: output()? returns the I/O error
             /\ faults > 0
             /\ faults' = faults - 1
             /\ walkFault' = "io"
             /\ UNCHANGED noiseLeft
             /\ pc' = "done"
             /\ result' = "IoError"
             /\ pgrepLog' = Append(pgrepLog, [parent |-> parent_pid, out |-> <<>>])
             /\ UNCHANGED <<walkVars, ancVars, ki, noisy>>
          \/ \* its output is not UTF-8: String::from_utf8(..)? returns the error
             /\ faults > 0
             /\ faults' = faults - 1
             /\ walkFault' = "utf8"
             /\ UNCHANGED noiseLeft
             /\ pc' = "done"
             /\ result' = "Utf8Error"
             /\ pgrepLog' = Append(pgrepLog, [parent |-> parent_pid, out |-> <<>>])
             /\ UNCHANGED <<walkVars, ancVars, ki, noisy>>
          \/ \E out \in PgrepListings(parent_pid) :
                LET child_pids == NewChildren(out, seen_pids)
                    all2 == all_pids \o child_pids
                    next2 == next_level \o child_pids
                    disc2 == disc \o [i \in 1..Len(child_pids) |->
                                         [by |-> parent_pid, depth |-> level + 1]]
                    extra == out # SortedSeq(Children(parent_pid))
                IN /\ noiseLeft' = IF extra THEN noiseLeft - 1 ELSE noiseLeft
                   /\ UNCHANGED faults
                   /\ noisy' = (noisy \/ extra)
                   /\ pgrepLog' = Append(pgrepLog, [parent |-> parent_pid, out |-> out])
                   /\ all_pids' = all2
                   /\ seen_pids' = seen_pids \cup Range(child_pids)
                   /\ disc' = disc2
                   /\ IF idx < Len(current_level)
                      THEN /\ idx' = idx + 1
                           /\ next_level' = next2
                           /\ UNCHANGED <<current_level, level, pc, ancVars, ki>>
                      ELSE IF WalkContinues(level, next2)
                      THEN /\ current_level' = next2
                           /\ next_level' = <<>>
                           /\ level' = level + 1
                           /\ idx' = 1
                           /\ UNCHANGED <<pc, ancVars, ki>>
                      ELSE /\ next_level' = next2
                           /\ UNCHANGED <<current_level, level, idx>>
                           /\ StartAncestors
                   /\ UNCHANGED <<walkFault, result>>
    /\ UNCHANGED <<tree, alive, pid, killLog, rootExisted, lookupFault>>
    /\ UNCHANGED portVars
    /\ UNCHANGED launcherVars

\* One iteration of `while current_ancestor > 1`.
AncestorStep ==
    /\ pc = "ancestors"
    /\ current_ancestor > 1
    /\ ancestor_pids' = ancestor_pids \cup {current_ancestor}
    /\ \E ppid_output \in {tree[current_ancestor]} \cup (IF faults > 0 THEN {None} ELSE {}) :
          /\ faults' = IF ppid_output = None THEN faults - 1 ELSE faults
          /\ lookupFault' = (lookupFault \/ ppid_output = None)
          /\ IF ValidParent(ppid_output, current_ancestor)
             THEN /\ current_ancestor' = ppid_output
                  /\ pc' = IF ppid_output > 1 THEN "ancestors" ELSE "kill"
             ELSE /\ pc' = "kill"
                  /\ UNCHANGED current_ancestor
    /\ UNCHANGED <<tree, alive, noiseLeft, pid, walkVars, ki, result, killLog, pgrepLog,
                   rootExisted, walkFault, noisy>>
    /\ UNCHANGED portVars
    /\ UNCHANGED launcherVars

\* What `kill -9 p` can do: it cannot be run, it ends the process, or it
\* reports failure (no such process, or no permission).
KillOutcomes(p) ==
    (IF p \in alive THEN {[ran |-> TRUE, success |-> TRUE]} ELSE {[ran |-> TRUE, success |-> FALSE]})
        \cup (IF faults > 0
              THEN {[ran |-> FALSE, success |-> FALSE], [ran |-> TRUE, success |-> FALSE]}
              ELSE {})

KillIsFault(p, o) == ~(o.ran /\ (o.success <=> p \in alive))

\* One iteration of the kill pass.
KillStep ==
    /\ pc = "kill"
    /\ ki <= Len(all_pids)
    /\ LET process_pid == KillOrder(all_pids)[ki]
           last == ki = Len(all_pids)
       IN \/ \* the safety check: continue
             /\ Excluded(process_pid)
             /\ ki' = ki + 1
             /\ pc' = IF last THEN "grace" ELSE "kill"
             /\ UNCHANGED <<alive, faults, killLog, result>>
          \/ /\ ~Excluded(process_pid)
             /\ \E o \in KillOutcomes(process_pid) :
                   /\ faults' = IF KillIsFault(process_pid, o) THEN faults - 1 ELSE faults
                   /\ alive' = IF o.ran /\ o.success THEN alive \ {process_pid} ELSE alive
                   /\ killLog' = Append(killLog, [target |-> process_pid, phase |-> "pass",
                                                  ran |-> o.ran, success |-> o.success])
                   /\ IF KillFails(o.ran, o.success, process_pid)
                      THEN /\ pc' = "done"
                           /\ result' = "CommandError"
                           /\ UNCHANGED ki
                      ELSE /\ ki' = ki + 1
                           /\ pc' = IF last THEN "grace" ELSE "kill"
                           /\ UNCHANGED result
    /\ UNCHANGED <<tree, noiseLeft, pid, walkVars, ancVars, pgrepLog, rootExisted, walkFault,
                   lookupFault, noisy>>
    /\ UNCHANGED portVars
    /\ UNCHANGED launcherVars

\* After the sleep: `ps -p pid` again, unless the root was excluded.
VerifyStep ==
    /\ pc = "grace"
    /\ \/ /\ ~VerifyNeeded(pid)
          /\ pc' = "done"
          /\ result' = "Ok"
          /\ UNCHANGED faults
       \/ \* ps cannot be run: output()? returns the I/O error
          /\ VerifyNeeded(pid)
          /\ faults > 0
          /\ faults' = faults - 1
          /\ pc' = "done"
          /\ result' = "IoError"
       \/ /\ VerifyNeeded(pid)
          /\ PsSuccess(pid)
          /\ pc' = "retry"
          /\ UNCHANGED <<faults, result>>
       \/ /\ VerifyNeeded(pid)
          /\ ~PsSuccess(pid)
          /\ pc' = "done"
          /\ result' = "Ok"
          /\ UNCHANGED faults
    /\ UNCHANGED <<tree, alive, noiseLeft, pid, walkVars, ancVars, ki, killLog, pgrepLog,
                   rootExisted, walkFault, lookupFault, noisy>>
    /\ UNCHANGED portVars
    /\ UNCHANGED launcherVars

\* The process still exists: one more `kill -9 pid`, its result dropped.
RetryKill ==
    /\ pc = "retry"
    /\ \E o \in KillOutcomes(pid) :
          /\ faults' = IF KillIsFault(pid, o) THEN faults - 1 ELSE faults
          /\ alive' = IF o.ran /\ o.success THEN alive \ {pid} ELSE alive
          /\ killLog' = Append(killLog, [target |-> pid, phase |-> "retry",
                                         ran |-> o.ran, success |-> o.success])
    /\ pc' = "done"
    /\ result' = "Ok"
    /\ UNCHANGED <<tree, noiseLeft, pid, walkVars, ancVars, ki, pgrepLog, rootExisted,
                   walkFault, lookupFault, noisy>>
    /\ UNCHANGED portVars
    /\ UNCHANGED launcherVars

Next ==
    \/ KillTreeCall
    \/ CheckExists
    \/ WalkStep
    \/ AncestorStep
    \/ KillStep
    \/ VerifyStep
    \/ RetryKill

Spec == Init /\ [][Next]_vars

\* kill_process_tree on a noisy system whose utilities do not fail: the retry
\* is never reached, the first kill -9 of a live root ends it.
InitNoisy ==
    /\ InitEnvNoisy
    /\ InitKill
    /\ InitPortOff
    /\ InitLauncherOff

NextNoisy ==
    \/ KillTreeCall
    \/ CheckExists
    \/ WalkStep
    \/ AncestorStep
    \/ KillStep
    \/ VerifyStep

SpecNoisy == InitNoisy /\ [][NextNoisy]_vars

\* ----------------------------------------------------- detect_port_by_pid
\* `for _level in 0..3`
MAX_CHILD_LEVELS == 3
\* `for _depth in 0..5`
MAX_PPID_DEPTH == 5
\* u16::MAX
U16_MAX == 65535

\* let test_ports = vec![...]
test_ports ==
    <<4321, 4322, 4323, 4324, 4325,
      3000, 3001, 3002, 3003, 3004,
      5173, 5174, 5175, 5176, 5177,
      8000, 8001, 8002, 8003, 8004>>

\* The ports a process of the table may listen on: one of the well-known ones
\* and one that is not.
ListenPorts == {3000, 9999}

\* A line of `lsof -Pan -p PID -iTCP -sTCP:LISTEN`: its number of columns, and
\* of column 9 (NAME) whether it holds a ':' and the text after the last ':'
\* (the whole column when there is none): a number, or None for other text.
Line(cols, colon, text) == [cols |-> cols, colon |-> colon, text |-> text]
HeaderLine == Line(9, FALSE, None)
GoodLine(p) == Line(10, TRUE, p)
JunkLines ==
    {Line(8, TRUE, 3000), Line(10, TRUE, 0), Line(10, TRUE, U16_MAX + 1),
     Line(10, TRUE, None), Line(9, FALSE, None), Line(9, FALSE, 7777)}

ParsesU16_NoRange(text) == text # None

\* port_str.parse::<u16>()
ParsesU16(text) == text # None /\ text >= 0 /\ text <= U16_MAX

\* The body of the first loop: the port of one line, or None.
PortOfLine1(line) ==
    IF line.cols >= 9 /\ line.colon /\ ParsesU16(line.text) /\ line.text > 0
    THEN line.text
    ELSE None

\* The find_map closure of the second loop: the port of one line, or None.
PortOfLine2(line) ==
    IF line.cols < 9 THEN None
    ELSE IF ParsesU16(line.text) /\ line.text > 0 THEN line.text ELSE None

\* .lines().skip(1)
SkipHeader(out) == IF out = <<>> THEN <<>> ELSE Tail(out)

\* The first loop: the first line that gives a port.
RECURSIVE FirstPort1(_)
FirstPort1(lines) ==
    IF lines = <<>> THEN None
    ELSE IF PortOfLine1(Head(lines)) # None THEN PortOfLine1(Head(lines))
    ELSE FirstPort1(Tail(lines))

\* The second loop's find_map: the first line that gives a port.
RECURSIVE FirstPort2(_)
FirstPort2(lines) ==
    IF lines = <<>> THEN None
    ELSE IF PortOfLine2(Head(lines)) # None THEN PortOfLine2(Head(lines))
    ELSE FirstPort2(Tail(lines))

RootPort_SkipsFirstSocket(out) == FirstPort1(SkipHeader(SkipHeader(out)))

\* The port of the first loop over the output of `lsof -p pid`, or None.
RootPort(out) == FirstPort1(SkipHeader(out))

\* The port of the second loop's find_map over the output of one descendant.
ChildPort(out) == FirstPort2(SkipHeader(out))

\* What `lsof -p p` prints: a header and a line for the socket p listens on,
\* nothing when there is none; and, while junkLeft allows, with a malformed
\* line first.
LsofTruth(p) == IF p \in alive /\ listen[p] # 0 THEN <<GoodLine(listen[p])>> ELSE <<>>
LsofOutputs(p) ==
    {IF LsofTruth(p) = <<>> THEN <<>> ELSE <<HeaderLine>> \o LsofTruth(p)}
        \cup (IF faults > 0 /\ junkLeft > 0
              THEN {<<HeaderLine, j>> \o LsofTruth(p) : j \in JunkLines}
              ELSE {})
LsofIsJunk(p, out) == Len(out) # (IF LsofTruth(p) = <<>> THEN 0 ELSE 2)

\* What `lsof -ti :test_port` prints: the PIDs with a socket on that port.
Listeners(test_port) == SortedSeq({p \in alive : listen[p] = test_port})

\* What `ps -o ppid= -p p` prints, parsed: the parent PID, None for no process.
PpidOf(p) == IF p \in alive THEN tree[p] ELSE None

Owned_Anyone(p) == TRUE

\* listening_pid == pid || child_pids_set.contains(&listening_pid)
Owned(p) == p = pid \/ p \in all_child_pids

ChildWalkContinues_OneLevelShort(lvl, next) ==
    next # <<>> /\ lvl + 2 < MAX_CHILD_LEVELS

\* The walk goes on to another level.
ChildWalkContinues(lvl, next) == next # <<>> /\ lvl + 1 < MAX_CHILD_LEVELS

\* Table of sockets: at most MaxListeners processes listen.
MaxListeners == 2
ListenTables ==
    {l \in [Procs -> ListenPorts \cup {0}] :
        Cardinality({p \in Procs : l[p] # 0}) <= MaxListeners}

\* lsof prints well-formed lines only.
InitPort ==
    /\ InitEnv
    /\ InitKill
    /\ InitPortIdle
    /\ listen \in ListenTables
    /\ junkLeft = 0
    /\ InitLauncherOff

\* lsof may print one malformed line during the call; one process listens.
InitPortJunk ==
    /\ InitEnv
    /\ InitKill
    /\ InitPortIdle
    /\ listen \in {l \in ListenTables : Cardinality({p \in Procs : l[p] # 0}) = 1}
    /\ junkLeft = 1
    /\ InitLauncherOff

portWalk == <<all_child_pids, current_level_pids, next_level_pids, level, idx>>
probeVars == <<port_idx, pid_lines, chain_pid, depth, probed>>

\* The call returns r (and the port p when r is Ok).
PortReturn(r, p) ==
    /\ pc' = "done"
    /\ result' = r
    /\ port' = p

\* The caller invokes detect_port_by_pid(root).
FindPortCall ==
    /\ pc = "idle"
    /\ \E root \in Procs : pid' = root
    /\ pc' = "tier1"
    /\ UNCHANGED <<envVars, killOnly, level, idx, result, pgrepLog, walkFault, portVars>>
    /\ UNCHANGED launcherVars

\* `lsof -p pid` on the root itself.
Tier1Query ==
    /\ pc = "tier1"
    /\ \/ /\ faults > 0
          /\ faults' = faults - 1
          /\ PortReturn("IoError", None)
          /\ UNCHANGED <<portWalk, lsofLog, junkLeft>>
       \/ /\ faults > 0
          /\ faults' = faults - 1
          /\ PortReturn("Utf8Error", None)
          /\ UNCHANGED <<portWalk, lsofLog, junkLeft>>
       \/ \E out \in LsofOutputs(pid) :
             /\ faults' = IF LsofIsJunk(pid, out) THEN faults - 1 ELSE faults
             /\ junkLeft' = IF LsofIsJunk(pid, out) THEN junkLeft - 1 ELSE junkLeft
             /\ lsofLog' = lsofLog \cup {[pid |-> pid, out |-> out]}
             /\ IF RootPort(out) # None
                THEN /\ PortReturn("Ok", RootPort(out))
                     /\ UNCHANGED portWalk
                ELSE /\ pc' = "pwalk"
                     /\ all_child_pids' = {}
                     /\ current_level_pids' = <<pid>>
                     /\ next_level_pids' = <<>>
                     /\ level' = 0
                     /\ idx' = 1
                     /\ UNCHANGED <<result, port>>
    /\ UNCHANGED <<tree, alive, noiseLeft, listen, pid, killOnly, pgrepLog, walkFault,
                   child_pids_for_check, probeVars>>
    /\ UNCHANGED launcherVars

\* The state after the walk: the Vec made of the HashSet, then the second loop
\* (or, with no descendants, the well-known ports).
StartTier2(found) ==
    /\ child_pids_for_check' = found
    /\ pc' = IF found = {} THEN "probe" ELSE "tier2"
    /\ port_idx' = IF found = {} THEN 1 ELSE port_idx

\* One `pgrep -P parent_pid` of the walk, with the bookkeeping of both loops.
PortWalkStep ==
    /\ pc = "pwalk"
    /\ LET parent_pid == current_level_pids[idx]
       IN \/ /\ faults > 0
             /\ faults' = faults - 1
             /\ walkFault' = "io"
             /\ PortReturn("IoError", None)
             /\ pgrepLog' = Append(pgrepLog, [parent |-> parent_pid, out |-> <<>>])
             /\ UNCHANGED <<portWalk, child_pids_for_check, port_idx>>
          \/ /\ faults > 0
             /\ faults' = faults - 1
             /\ walkFault' = "utf8"
             /\ PortReturn("Utf8Error", None)
             /\ pgrepLog' = Append(pgrepLog, [parent |-> parent_pid, out |-> <<>>])
             /\ UNCHANGED <<portWalk, child_pids_for_check, port_idx>>
          \/ LET out == SortedSeq(Children(parent_pid))
                 child_pids == NewChildren(out, all_child_pids)
                 found == all_child_pids \cup Range(child_pids)
                 next2 == next_level_pids \o child_pids
             IN /\ pgrepLog' = Append(pgrepLog, [parent |-> parent_pid, out |-> out])
                /\ all_child_pids' = found
                /\ IF idx < Len(current_level_pids)
                   THEN /\ idx' = idx + 1
                        /\ next_level_pids' = next2
                        /\ UNCHANGED <<current_level_pids, level, pc,
                                       child_pids_for_check, port_idx>>
                   ELSE IF ChildWalkContinues(level, next2)
                   THEN /\ current_level_pids' = next2
                        /\ next_level_pids' = <<>>
                        /\ level' = level + 1
                        /\ idx' = 1
                        /\ UNCHANGED <<pc, child_pids_for_check, port_idx>>
                   ELSE /\ next_level_pids' = next2
                        /\ UNCHANGED <<current_level_pids, level, idx>>
                        /\ StartTier2(found)
                /\ UNCHANGED <<faults, walkFault, result, port>>
    /\ UNCHANGED <<tree, alive, noiseLeft, listen, pid, killOnly, lsofLog, junkLeft,
                   pid_lines, chain_pid, depth, probed>>
    /\ UNCHANGED launcherVars

\* One iteration of the second loop: `lsof -p child_pid` on a descendant. The
\* Vec was collected from a HashSet: its order is any order.
Tier2Query ==
    /\ pc = "tier2"
    /\ \E child_pid \in child_pids_for_check :
          \/ /\ faults > 0
             /\ faults' = faults - 1
             /\ PortReturn("IoError", None)
             /\ UNCHANGED <<child_pids_for_check, port_idx, lsofLog, junkLeft>>
          \/ /\ faults > 0
             /\ faults' = faults - 1
             /\ PortReturn("Utf8Error", None)
             /\ UNCHANGED <<child_pids_for_check, port_idx, lsofLog, junkLeft>>
          \/ \E out \in LsofOutputs(child_pid) :
                /\ faults' = IF LsofIsJunk(child_pid, out) THEN faults - 1 ELSE faults
                /\ junkLeft' = IF LsofIsJunk(child_pid, out) THEN junkLeft - 1 ELSE junkLeft
                /\ lsofLog' = lsofLog \cup {[pid |-> child_pid, out |-> out]}
                /\ IF ChildPort(out) # None
                   THEN /\ PortReturn("Ok", ChildPort(out))
                        /\ UNCHANGED <<child_pids_for_check, port_idx>>
                   ELSE /\ child_pids_for_check' = child_pids_for_check \ {child_pid}
                        /\ pc' = IF child_pids_for_check = {child_pid} THEN "probe" ELSE "tier2"
                        /\ port_idx' = IF child_pids_for_check = {child_pid} THEN 1 ELSE port_idx
                        /\ UNCHANGED <<result, port>>
    /\ UNCHANGED <<tree, alive, noiseLeft, listen, pid, killOnly, portWalk, pgrepLog, walkFault,
                   pid_lines, chain_pid, depth, probed>>
    /\ UNCHANGED launcherVars

\* The positions from k on of the well-known ports that somebody listens on.
Busy(k) == {j \in k..Len(test_ports) : Listeners(test_ports[j]) # <<>>}

\* The third loop up to the next well-known port whose `lsof -ti` prints a PID:
\* the ports before it print nothing and the loop goes on.
ProbeScan ==
    /\ pc = "probe"
    /\ \/ /\ faults > 0
          /\ port_idx <= Len(test_ports)
          /\ faults' = faults - 1
          /\ probed' = port_idx
          /\ PortReturn("IoError", None)
          /\ UNCHANGED <<port_idx, pid_lines>>
       \/ /\ faults > 0
          /\ port_idx <= Len(test_ports)
          /\ faults' = faults - 1
          /\ probed' = port_idx
          /\ PortReturn("Utf8Error", None)
          /\ UNCHANGED <<port_idx, pid_lines>>
       \/ /\ Busy(port_idx) = {}
          /\ probed' = Len(test_ports)
          /\ PortReturn("Ok", None)
          /\ UNCHANGED <<faults, port_idx, pid_lines>>
       \/ /\ Busy(port_idx) # {}
          /\ LET k == CHOOSE j \in Busy(port_idx) : \A i \in Busy(port_idx) : j <= i
             IN /\ port_idx' = k
                /\ probed' = k
                /\ pid_lines' = Listeners(test_ports[k])
          /\ pc' = "owner"
          /\ UNCHANGED <<faults, result, port>>
    /\ UNCHANGED <<tree, alive, noiseLeft, listen, pid, killOnly, portWalk, pgrepLog, walkFault,
                   child_pids_for_check, chain_pid, depth, lsofLog, junkLeft>>
    /\ UNCHANGED launcherVars

\* After the checks of one listening PID: the next line, or the next port.
NextLine ==
    /\ pid_lines' = Tail(pid_lines)
    /\ IF Tail(pid_lines) = <<>>
       THEN /\ port_idx' = port_idx + 1
            /\ pc' = "probe"
       ELSE /\ pc' = "owner"
            /\ UNCHANGED port_idx

\* One line of `lsof -ti`: is the listening PID the root or a descendant found.
OwnerCheck ==
    /\ pc = "owner"
    /\ LET listening_pid == Head(pid_lines)
       IN IF Owned(listening_pid)
          THEN /\ PortReturn("Ok", test_ports[port_idx])
               /\ UNCHANGED <<port_idx, pid_lines, chain_pid, depth>>
          ELSE /\ chain_pid' = listening_pid
               /\ depth' = 0
               /\ pc' = "chain"
               /\ UNCHANGED <<port_idx, pid_lines, result, port>>
    /\ UNCHANGED <<envVars, listen, pid, killOnly, portWalk, pgrepLog, walkFault,
                   child_pids_for_check, lsofLog, probed, junkLeft>>
    /\ UNCHANGED launcherVars

\* One iteration of the parent-chain loop: `ps -o ppid= -p current_pid`.
ChainStep ==
    /\ pc = "chain"
    /\ \/ \* ps cannot be run: output()? returns the I/O error
          /\ faults > 0
          /\ faults' = faults - 1
          /\ PortReturn("IoError", None)
          /\ UNCHANGED <<port_idx, pid_lines, chain_pid, depth>>
       \/ \E ppid \in {PpidOf(chain_pid)} \cup (IF faults > 0 THEN {None} ELSE {}) :
             /\ faults' = IF ppid # PpidOf(chain_pid) THEN faults - 1 ELSE faults
             /\ IF ppid = None
                THEN /\ NextLine
                     /\ UNCHANGED <<chain_pid, depth, result, port>>
                ELSE IF Owned(ppid)
                THEN /\ PortReturn("Ok", test_ports[port_idx])
                     /\ UNCHANGED <<port_idx, pid_lines, chain_pid, depth>>
                ELSE IF depth + 1 < MAX_PPID_DEPTH
                THEN /\ chain_pid' = ppid
                     /\ depth' = depth + 1
                     /\ UNCHANGED <<pc, port_idx, pid_lines, result, port>>
                ELSE /\ NextLine
                     /\ chain_pid' = ppid
                     /\ UNCHANGED <<depth, result, port>>
    /\ UNCHANGED <<tree, alive, noiseLeft, listen, pid, killOnly, portWalk, pgrepLog, walkFault,
                   child_pids_for_check, lsofLog, probed, junkLeft>>
    /\ UNCHANGED launcherVars

\* The caller invokes detect_port_by_pid a second time with the same root:
\* the outcome of the first call is kept, and the locals are new.
FindPortAgain ==
    /\ pc = "done"
    /\ first_call = NoCall
    /\ first_call' = [root |-> pid, result |-> result, port |-> port]
    /\ pc' = "tier1"
    /\ result' = "none"
    /\ port' = None
    /\ all_child_pids' = {}
    /\ current_level_pids' = <<>>
    /\ next_level_pids' = <<>>
    /\ child_pids_for_check' = {}
    /\ port_idx' = 0
    /\ pid_lines' = <<>>
    /\ chain_pid' = 0
    /\ depth' = 0
    /\ level' = 0
    /\ idx' = 0
    /\ UNCHANGED <<envVars, listen, pid, killOnly, pgrepLog, walkFault, lsofLog, probed,
                   junkLeft>>
    /\ UNCHANGED <<argsVars, quoteVars, cacheVars, staticVars, v_command, v_result, spawnVars>>

NextPort ==
    \/ FindPortCall
    \/ Tier1Query
    \/ PortWalkStep
    \/ Tier2Query
    \/ ProbeScan
    \/ OwnerCheck
    \/ ChainStep

SpecPort == InitPort /\ [][NextPort]_vars

SpecPortJunk == InitPortJunk /\ [][NextPort]_vars

\* Two calls in a row with the same root; no utility fails and lsof prints
\* well-formed lines only.
InitPortTwice ==
    /\ tree \in Trees
    /\ alive = Procs
    /\ faults = 0
    /\ noiseLeft = 0
    /\ InitKill
    /\ InitPortIdle
    /\ listen \in ListenTables
    /\ junkLeft = 0
    /\ InitLauncherOff

NextPortTwice ==
    \/ NextPort
    \/ FindPortAgain

SpecPortTwice == InitPortTwice /\ [][NextPortTwice]_vars

\* ------------------------------------------------------- validate_command
\* A &str is the sequence of its characters.
\* command.contains(c)
ContainsChar(str, c) == \E i \in 1..Len(str) : str[i] = c

\* const ALLOWED_COMMANDS
ALLOWED_COMMANDS ==
    <<<<"n", "p", "m">>,
      <<"p", "n", "p", "m">>,
      <<"y", "a", "r", "n">>,
      <<"b", "u", "n">>,
      <<"d", "e", "n", "o">>>>

\* The character U+0060, which a string of this module cannot hold.
Backtick == "U+0060"

\* let dangerous_chars = [...] of validate_command
dangerous_chars == {";", "&", "|", Backtick, "$", "(", ")", "<", ">", "\n", "\r"}

\* to_ascii_lowercase of the letters the inputs use.
Lower(c) ==
    CASE c = "N" -> "n" [] c = "P" -> "p" [] c = "M" -> "m" [] OTHER -> c

IsAllowed_IgnoringCase(str) ==
    [i \in 1..Len(str) |-> Lower(str[i])] \in Range(ALLOWED_COMMANDS)

\* ALLOWED_COMMANDS.contains(&command)
IsAllowed(str) == str \in Range(ALLOWED_COMMANDS)

\* validate_command with the metacharacter check moved in front of the
\* path-separator check.
validate_command_MetacharsFirst(str) ==
    IF str = <<>> THEN "empty"
    ELSE IF \E i \in 1..Len(str) : str[i] \in dangerous_chars THEN "dangerous_characters"
    ELSE IF ContainsChar(str, "/") \/ ContainsChar(str, "\\") THEN "path_separators"
    ELSE IF ~IsAllowed(str) THEN "not_allowed"
    ELSE "Ok"

\* validate_command(command): "Ok", or the condition that rejected it.
validate_command(str) ==
    IF str = <<>> THEN "empty"
    ELSE IF ContainsChar(str, "/") \/ ContainsChar(str, "\\") THEN "path_separators"
    ELSE IF \E i \in 1..Len(str) : str[i] \in dangerous_chars THEN "dangerous_characters"
    ELSE IF ~IsAllowed(str) THEN "not_allowed"
    ELSE "Ok"

\* The longest of the strings that are enumerated in full.
MaxCmdLen == 3

\* The longest of the strings that are quoted.
MaxQuoteLen == 3

\* The characters of the inputs: letters of "npm" in both cases, a blank, the
\* path separators and the metacharacters.
CmdChars == {"n", "p", "m", "N", "P", "M", " ", "/", "\\"} \cup dangerous_chars

\* The inputs: every string of at most MaxCmdLen characters, and every
\* whitelist member as it is, with one more character in front or behind,
\* and with its first character in upper case, and the scenario commands.
RECURSIVE StringsUpTo(_)
StringsUpTo(n) ==
    IF n = 0 THEN {<<>>}
    ELSE StringsUpTo(n - 1) \cup [1..n -> CmdChars]

Upper1(str) ==
    [i \in 1..Len(str) |->
        IF i = 1 /\ str[i] \in {"n", "p"} THEN (IF str[i] = "n" THEN "N" ELSE "P")
        ELSE str[i]]

\* The commands of the scenarios: "npm;rm -rf /", "npm;rm" and "rm".
InjectionAttempt == <<"n", "p", "m", ";", "r", "m", " ", "-", "r", "f", " ", "/">>

ChainedCommand == <<"n", "p", "m", ";", "r", "m">>

PlainRm == <<"r", "m">>

ScenarioCommands == {InjectionAttempt, ChainedCommand, PlainRm}

CommandInputs ==
    StringsUpTo(MaxCmdLen)
        \cup Range(ALLOWED_COMMANDS)
        \cup {Upper1(w) : w \in Range(ALLOWED_COMMANDS)}
        \cup {<<c>> \o w : c \in CmdChars, w \in Range(ALLOWED_COMMANDS)}
        \cup {w \o <<c>> : c \in CmdChars, w \in Range(ALLOWED_COMMANDS)}
        \cup ScenarioCommands

InitValidate ==
    /\ InitEnv
    /\ InitKill
    /\ InitPortOff
    /\ InitSpawnIdle
    /\ SHELL = <<>>
    /\ macos = FALSE
    /\ tree = [p \in Procs |-> p - 1]
    /\ v_command \in CommandInputs
    /\ v_result = "none"
    /\ InitUtilOff

\* A caller invokes validate_command(v_command).
ValidateCommandCall ==
    /\ v_result = "none"
    /\ v_result' = validate_command(v_command)
    /\ UNCHANGED <<v_command, utilVars, spawnVars, envVars, killVars, portVars>>

NextValidate == ValidateCommandCall

SpecValidate == InitValidate /\ [][NextValidate]_vars

\* -------------------------------------------------------------- validate_pid
\* `if pid > 10_000_000`
PID_UPPER_BOUND == 10000000

\* validate_pid(pid): "Ok", or the condition that rejected it.
validate_pid(p) ==
    IF p = 0 THEN "reserved"
    ELSE IF p > PID_UPPER_BOUND THEN "out_of_range"
    ELSE "Ok"

\* ------------------------------------------------------ get_shells_to_try
\* An Option<String> is the sequence of no element (None) or of one (Some).
Some(x) == <<x>>

\* opt.as_deref().unwrap_or("unknown")
UnwrapOrUnknown(opt) ==
    IF opt = <<>> THEN <<"u", "n", "k", "n", "o", "w", "n">> ELSE opt[1]

\* str.contains(sub) for a non-empty sub
Contains(str, sub) ==
    \E i \in 1..(Len(str) - Len(sub) + 1) : SubSeq(str, i, i + Len(sub) - 1) = sub

\* str.split('/').last()
LastSegment(str) ==
    LET slashes == {i \in 1..Len(str) : str[i] = "/"}
    IN IF slashes = {} THEN str
       ELSE SubSeq(str, (CHOOSE i \in slashes : \A j \in slashes : j <= i) + 1, Len(str))

\* Shell names and paths of the source, character by character.
N_zsh == <<"z", "s", "h">>
N_bash == <<"b", "a", "s", "h">>
N_fish == <<"f", "i", "s", "h">>
N_csh == <<"c", "s", "h">>
N_tcsh == <<"t", "c", "s", "h">>
N_ksh == <<"k", "s", "h">>
N_sh == <<"s", "h">>
P_bin_zsh == <<"/", "b", "i", "n", "/", "z", "s", "h">>
P_bin_bash == <<"/", "b", "i", "n", "/", "b", "a", "s", "h">>
P_usr_local_bin_fish ==
    <<"/", "u", "s", "r", "/", "l", "o", "c", "a", "l", "/", "b", "i", "n", "/", "f", "i", "s", "h">>
P_opt_homebrew_bin_fish ==
    <<"/", "o", "p", "t", "/", "h", "o", "m", "e", "b", "r", "e", "w", "/", "b", "i", "n", "/", "f", "i", "s", "h">>
P_bin_sh == <<"/", "b", "i", "n", "/", "s", "h">>

\* The bootstrap snippets (source_command) of the source.
SourceZsh == "source ~/.zshrc 2>/dev/null || source ~/.zprofile 2>/dev/null || true"
SourceBash == "source ~/.bashrc 2>/dev/null || source ~/.bash_profile 2>/dev/null || true"
SourceFish == "source ~/.config/fish/config.fish 2>/dev/null || true"
SourceCsh == "source ~/.cshrc 2>/dev/null || true"
SourceTcsh == "source ~/.tcshrc 2>/dev/null || source ~/.cshrc 2>/dev/null || true"
SourceKsh == "source ~/.kshrc 2>/dev/null || source ~/.profile 2>/dev/null || true"
SourceNone == "true"

\* One element of the Vec<(String, String)>.
Candidate(path, source_command) == [path |-> path, source_command |-> source_command]

\* match shell_name { ... }
SourceOf(shell_name) ==
    CASE shell_name = N_zsh -> SourceZsh
      [] shell_name = N_bash -> SourceBash
      [] shell_name = N_fish -> SourceFish
      [] shell_name = N_csh -> SourceCsh
      [] shell_name = N_tcsh -> SourceTcsh
      [] shell_name = N_ksh -> SourceKsh
      [] OTHER -> SourceNone

\* shells.iter().any(|(path, _)| path.contains(name))
AnyContains(list, name) == \E i \in 1..Len(list) : Contains(list[i].path, name)

\* if !shells.iter().any(..) { shells.push(..) }
PushUnlessAny(list, name, entries) ==
    IF AnyContains(list, name) THEN list ELSE list \o entries

\* if let Ok(user_shell) = env::var("SHELL") { ... }
UserShell(shell_env) ==
    IF shell_env = <<>> THEN <<>>
    ELSE <<Candidate(shell_env[1], SourceOf(LastSegment(shell_env[1])))>>

\* The two platform blocks: zsh then bash on macOS, bash then zsh elsewhere.
PlatformDefaults(list, is_macos) ==
    IF is_macos
    THEN PushUnlessAny(PushUnlessAny(list, N_zsh, <<Candidate(P_bin_zsh, SourceZsh)>>),
                       N_bash, <<Candidate(P_bin_bash, SourceBash)>>)
    ELSE PushUnlessAny(PushUnlessAny(list, N_bash, <<Candidate(P_bin_bash, SourceBash)>>),
                       N_zsh, <<Candidate(P_bin_zsh, SourceZsh)>>)

\* get_shells_to_try()
get_shells_to_try(shell_env, is_macos) ==
    Append(PushUnlessAny(PlatformDefaults(UserShell(shell_env), is_macos), N_fish,
                         <<Candidate(P_usr_local_bin_fish, SourceFish),
                           Candidate(P_opt_homebrew_bin_fish, SourceFish)>>),
           Candidate(P_bin_sh, SourceNone))

\* let shell_flags = if shell_name == "fish" ... else if shell_name == "sh" ...
shell_flags(shell_path) ==
    IF LastSegment(shell_path) = N_fish THEN <<"-c">>
    ELSE IF LastSegment(shell_path) = N_sh THEN <<"-c">>
    ELSE <<"-l", "-c">>

\* ------------------------------------------------ spawn_process_with_logs
\* `if args.len() > 100`
MAX_ARGS == 100
\* `if arg.len() > 1024`
MAX_ARG_LEN == 1024

\* The character U+0000, which a string of this module cannot hold.
Nul == "U+0000"

\* let dangerous_chars = [...] of validate_command_args
arg_dangerous_chars == dangerous_chars \cup {Nul}

\* The character U+00E9, which UTF-8 encodes in two bytes.
EAcute == "U+00E9"

\* str.len(): the length in bytes of the UTF-8 encoding.
ByteLen(str) == Len(str) + Cardinality({i \in 1..Len(str) : str[i] = EAcute})

\* The loop body with the length test off by one.
validate_arg_OffByOne(arg) ==
    IF ByteLen(arg) >= MAX_ARG_LEN THEN "too_long"
    ELSE IF \E i \in 1..Len(arg) : arg[i] \in arg_dangerous_chars THEN "dangerous_character"
    ELSE "Ok"

\* The body of the loop of validate_command_args for one argument.
validate_arg(arg) ==
    IF ByteLen(arg) > MAX_ARG_LEN THEN "too_long"
    ELSE IF \E i \in 1..Len(arg) : arg[i] \in arg_dangerous_chars THEN "dangerous_character"
    ELSE "Ok"

\* validate_command_args(args): "Ok", or the condition that rejected them
\* (the one of the first argument that fails).
validate_command_args(list) ==
    IF Len(list) > MAX_ARGS THEN "too_many"
    ELSE LET bad == {i \in 1..Len(list) : validate_arg(list[i]) # "Ok"}
         IN IF bad = {} THEN "Ok"
            ELSE validate_arg(list[CHOOSE i \in bad : \A j \in bad : i <= j])

\* n times the character c.
Rep(n, c) == [i \in 1..n |-> c]

\* The arguments `dev` and `--port=4321`.
Dev == <<"d", "e", "v">>

PortFlag == <<"-", "-", "p", "o", "r", "t", "=", "4", "3", "2", "1">>

\* The characters of the arguments: the forbidden ones, and some that are not.
ArgChars == arg_dangerous_chars \cup {"a", "=", "-", " ", "'", EAcute}

\* The arguments: runs of `a` of lengths around 0 and around the cap, alone
\* and with one more character in front or behind, and `--port=4321`.
ArgRuns == {Rep(n, "a") : n \in {0, 1, MAX_ARG_LEN - 2, MAX_ARG_LEN - 1,
                                  MAX_ARG_LEN, MAX_ARG_LEN + 1}}

ArgInputs ==
    ArgRuns
        \cup {<<c>> \o r : c \in ArgChars, r \in ArgRuns}
        \cup {r \o <<c>> : c \in ArgChars, r \in ArgRuns}
        \cup {PortFlag}

\* The argument lists: `dev` repeated, from none to one more than the cap,
\* alone and with one of the arguments in front or behind.
DevRuns == {Rep(k, Dev) : k \in {0, 1, MAX_ARGS - 2, MAX_ARGS - 1, MAX_ARGS,
                                  MAX_ARGS + 1}}

ArgListInputs ==
    DevRuns
        \cup {<<a>> \o l : a \in ArgInputs, l \in DevRuns}
        \cup {l \o <<a>> : a \in ArgInputs, l \in DevRuns}

\* A directory path, by what validate_directory_path looks at: the text (is it
\* empty, does it hold a NUL, a `..` component, more than 4096 bytes) and the
\* file system (does it exist, is it a directory, can it be canonicalized).
Path(empty, nul, parent_dir, too_long, exists, is_dir, canonical) ==
    [empty |-> empty, nul |-> nul, parent_dir |-> parent_dir, too_long |-> too_long,
     exists |-> exists, is_dir |-> is_dir, canonical |-> canonical]

validate_directory_path_Unchecked(path) == "Ok"

\* validate_directory_path(path): "Ok", or the error returned.
validate_directory_path(path) ==
    IF path.empty THEN "NotFound"
    ELSE IF path.nul THEN "CommandError"
    ELSE IF path.parent_dir THEN "CommandError"
    ELSE IF path.too_long THEN "CommandError"
    ELSE IF ~path.exists THEN "NotFound"
    ELSE IF ~path.is_dir THEN "CommandError"
    ELSE IF ~path.canonical THEN "IoError"
    ELSE "Ok"

\* The requests: a whitelisted command, one that is not, one with a
\* metacharacter; the arguments `run dev`, an argument with a metacharacter;
\* a project directory, and paths that fail each check.
SpawnCommands == {<<"n", "p", "m">>, <<"r", "m">>, <<"n", "p", "m", ";">>}
SpawnArgs == {<<<<"r", "u", "n">>, <<"d", "e", "v">>>>, <<<<"r", "u", "n">>, <<"$", "x">>>>}
GoodPath == Path(FALSE, FALSE, FALSE, FALSE, TRUE, TRUE, TRUE)
SpawnPaths ==
    {GoodPath,
     Path(TRUE, FALSE, FALSE, FALSE, FALSE, FALSE, FALSE),
     Path(FALSE, FALSE, TRUE, FALSE, TRUE, TRUE, TRUE),
     Path(FALSE, FALSE, FALSE, FALSE, FALSE, FALSE, FALSE),
     Path(FALSE, FALSE, FALSE, FALSE, TRUE, FALSE, TRUE)}

\* The values of $SHELL: unset, zsh, and the POSIX shell.
ShellValues == {<<>>, Some(P_bin_zsh), Some(P_bin_sh)}

\* The lines the child writes to each of its two streams, at most.
MaxLines == 2

\* child.id() of the child that the candidate at position i created.
ChildPid(i) == 1000 + i

mainVars == <<s_pc, s_result>>
requestVars == <<command, args, cwd>>
loopVars == <<shells, index, preferred_shell, used_shell, preferred_shell_failed,
              last_error, spawned_pid, attempts, children>>
childVars == <<childState, outWritten, errWritten>>
stdoutVars == <<outReader, outRead, outEvents>>
stderrVars == <<errReader, errRead, errEvents>>
\* What no step of spawn_process_with_logs changes.
spawnFrame == <<envVars, killVars, portVars, validateVars, SHELL, macos>>

InitSpawn ==
    /\ InitEnv
    /\ InitKill
    /\ InitPortOff
    /\ InitValidateOff
    /\ InitSpawnIdle
    /\ tree = [p \in Procs |-> p - 1]
    /\ SHELL \in ShellValues
    /\ macos \in BOOLEAN

\* The call returns r.
SpawnReturn(r) ==
    /\ s_pc' = "returned"
    /\ s_result' = r

\* The caller invokes spawn_process_with_logs: the three validations, then
\* the candidate list and the locals of the shell loop.
SpawnCall ==
    /\ s_pc = "idle"
    /\ \E c \in SpawnCommands, a \in SpawnArgs, d \in SpawnPaths :
          /\ command' = c
          /\ args' = a
          /\ cwd' = d
          /\ IF validate_command(c) # "Ok"
             THEN SpawnReturn("CommandRejected") /\ UNCHANGED <<shells, preferred_shell>>
             ELSE IF validate_command_args(a) # "Ok"
             THEN SpawnReturn("ArgumentsRejected") /\ UNCHANGED <<shells, preferred_shell>>
             ELSE IF validate_directory_path(d) # "Ok"
             THEN SpawnReturn("PathRejected") /\ UNCHANGED <<shells, preferred_shell>>
             ELSE /\ shells' = get_shells_to_try(SHELL, macos)
                  /\ preferred_shell' = Some(get_shells_to_try(SHELL, macos)[1].path)
                  /\ s_pc' = "shells"
                  /\ UNCHANGED s_result
    /\ UNCHANGED <<index, used_shell, preferred_shell_failed, last_error, spawned_pid,
                   attempts, children, fallbackEvents, termEvents, childVars,
                   stdoutVars, stderrVars, warnThread, waiter, spawnFrame>>

Exhausted_OneEarly(i, list) == i + 2 >= Len(list)

\* The loop has gone through the whole list.
Exhausted(i, list) == i + 1 >= Len(list)

\* One iteration of the shell loop: the spawn call of shells[index], and after
\* the last candidate has failed the `ok_or_else(..)?` that returns the error.
TrySpawn ==
    /\ s_pc = "shells"
    /\ LET shell_path == shells[index + 1].path
       IN /\ attempts' = Append(attempts, [index |-> index, shell |-> shell_path,
                                            flags |-> shell_flags(shell_path)])
          /\ \/ \* Ok(c)
                /\ spawned_pid' = ChildPid(index)
                /\ used_shell' = Some(shell_path)
                /\ preferred_shell_failed' = (preferred_shell_failed \/ index > 0)
                /\ children' = Append(children, index)
                /\ childState' = "running"
                /\ s_pc' = "notify"
                /\ UNCHANGED <<index, last_error, s_result>>
             \/ \* Err(e)
                /\ last_error' = Some(shell_path)
                /\ preferred_shell_failed' = (preferred_shell_failed \/ index = 0)
                /\ index' = index + 1
                /\ IF Exhausted(index, shells)
                   THEN SpawnReturn("SpawnFailed")
                   ELSE UNCHANGED mainVars
                /\ UNCHANGED <<spawned_pid, used_shell, children, childState>>
    /\ UNCHANGED <<requestVars, shells, preferred_shell, fallbackEvents, termEvents,
                   outWritten, errWritten, stdoutVars, stderrVars, warnThread, waiter,
                   spawnFrame>>

FallbackNeeded_Always(failed) == TRUE

\* if preferred_shell_failed { ... }
FallbackNeeded(failed) == failed

\* The notification of a fallback: the process-shell-fallback emit, whose
\* result is dropped, and the thread of the warning line; thread::spawn panics
\* when the OS cannot create the thread.
Notify ==
    /\ s_pc = "notify"
    /\ IF FallbackNeeded(preferred_shell_failed)
       THEN /\ \E delivered \in BOOLEAN :
                  fallbackEvents' = Append(fallbackEvents,
                      [preferredShell |-> UnwrapOrUnknown(preferred_shell),
                       usedShell |-> UnwrapOrUnknown(used_shell),
                       delivered |-> delivered])
            /\ \/ /\ warnThread' = "pending"
                  /\ s_pc' = "start_stdout"
                  /\ UNCHANGED s_result
               \/ /\ SpawnReturn("Panic")
                  /\ UNCHANGED warnThread
       ELSE /\ s_pc' = "start_stdout"
            /\ UNCHANGED <<s_result, fallbackEvents, warnThread>>
    /\ UNCHANGED <<requestVars, loopVars, termEvents, childVars, stdoutVars, stderrVars,
                   waiter, spawnFrame>>

\* thread::Builder::spawn of the stdout reader; `.expect(..)` panics on Err.
StartStdout ==
    /\ s_pc = "start_stdout"
    /\ \/ /\ outReader' = "running"
          /\ s_pc' = "start_stderr"
          /\ UNCHANGED s_result
       \/ /\ SpawnReturn("Panic")
          /\ UNCHANGED outReader
    /\ UNCHANGED <<requestVars, loopVars, fallbackEvents, termEvents, childVars, outRead,
                   outEvents, stderrVars, warnThread, waiter, spawnFrame>>

\* thread::Builder::spawn of the stderr reader; `.expect(..)` panics on Err.
StartStderr ==
    /\ s_pc = "start_stderr"
    /\ \/ /\ errReader' = "running"
          /\ s_pc' = "start_wait"
          /\ UNCHANGED s_result
       \/ /\ SpawnReturn("Panic")
          /\ UNCHANGED errReader
    /\ UNCHANGED <<requestVars, loopVars, fallbackEvents, termEvents, childVars, errRead,
                   errEvents, stdoutVars, warnThread, waiter, spawnFrame>>

\* thread::Builder::spawn of the exit waiter, then Ok(pid); `.expect(..)`
\* panics on Err.
StartWait ==
    /\ s_pc = "start_wait"
    /\ \/ /\ waiter' = "waiting"
          /\ SpawnReturn("Ok")
       \/ /\ SpawnReturn("Panic")
          /\ UNCHANGED waiter
    /\ UNCHANGED <<requestVars, loopVars, fallbackEvents, termEvents, childVars,
                   stdoutVars, stderrVars, warnThread, spawnFrame>>

\* The thread of the warning line emits it as a process-stderr event.
WarnEmit ==
    /\ warnThread = "pending"
    /\ warnThread' = "done"
    /\ \/ errEvents' = Append(errEvents, [from |-> "supervisor", line |-> 0])
       \/ UNCHANGED errEvents
    /\ UNCHANGED <<mainVars, requestVars, loopVars, fallbackEvents, termEvents, childVars,
                   stdoutVars, errReader, errRead, waiter, spawnFrame>>

\* The child writes its next line to stdout.
ChildWriteOut ==
    /\ childState = "running"
    /\ outWritten < MaxLines
    /\ outWritten' = outWritten + 1
    /\ UNCHANGED <<mainVars, requestVars, loopVars, fallbackEvents, termEvents, childState,
                   errWritten, stdoutVars, stderrVars, warnThread, waiter, spawnFrame>>

\* The child writes its next line to stderr.
ChildWriteErr ==
    /\ childState = "running"
    /\ errWritten < MaxLines
    /\ errWritten' = errWritten + 1
    /\ UNCHANGED <<mainVars, requestVars, loopVars, fallbackEvents, termEvents, childState,
                   outWritten, stdoutVars, stderrVars, warnThread, waiter, spawnFrame>>

\* The child exits; its ends of the two pipes are closed.
ChildExit ==
    /\ childState = "running"
    /\ childState' = "exited"
    /\ UNCHANGED <<mainVars, requestVars, loopVars, fallbackEvents, termEvents, outWritten,
                   errWritten, stdoutVars, stderrVars, warnThread, waiter, spawnFrame>>

NextRead_Repeats(read) == IF read > 0 THEN read ELSE 1

\* The line that the next item of reader.lines() holds, by its number.
NextRead(read) == read + 1

\* A reader that goes on with the next line where the code breaks.
AfterBreak_KeepsReading == "running"

\* `break`: the loop is left and the thread of the reader ends.
AfterBreak == "done"

\* One iteration of `for line in reader.lines()` of the stdout reader: a line
\* that is emitted, a line whose emit fails, a read error, or the end.
StdoutRead ==
    /\ outReader = "running"
    /\ \/ /\ outRead < outWritten
          /\ outRead' = outRead + 1
          /\ \/ \* Ok(line), emit succeeds
                /\ outEvents' = Append(outEvents, NextRead(outRead))
                /\ UNCHANGED outReader
             \/ \* Ok(line), emit fails: break
                /\ outReader' = AfterBreak
                /\ UNCHANGED outEvents
             \/ \* Err(_): break
                /\ outReader' = AfterBreak
                /\ UNCHANGED outEvents
       \/ \* the pipe is closed and empty: the iterator ends
          /\ outRead = outWritten
          /\ childState = "exited"
          /\ outReader' = "done"
          /\ UNCHANGED <<outRead, outEvents>>
    /\ UNCHANGED <<mainVars, requestVars, loopVars, fallbackEvents, termEvents, childVars,
                   stderrVars, warnThread, waiter, spawnFrame>>

\* One iteration of `for line in reader.lines()` of the stderr reader.
StderrRead ==
    /\ errReader = "running"
    /\ \/ /\ errRead < errWritten
          /\ errRead' = errRead + 1
          /\ \/ \* Ok(line), emit succeeds
                /\ errEvents' = Append(errEvents, [from |-> "child", line |-> NextRead(errRead)])
                /\ UNCHANGED errReader
             \/ \* Ok(line), emit fails: break
                /\ errReader' = AfterBreak
                /\ UNCHANGED errEvents
             \/ \* Err(_): break
                /\ errReader' = AfterBreak
                /\ UNCHANGED errEvents
       \/ \* the pipe is closed and empty: the iterator ends
          /\ errRead = errWritten
          /\ childState = "exited"
          /\ errReader' = "done"
          /\ UNCHANGED <<errRead, errEvents>>
    /\ UNCHANGED <<mainVars, requestVars, loopVars, fallbackEvents, termEvents, childVars,
                   stdoutVars, warnThread, waiter, spawnFrame>>

WaitReturns_BeforeExit == TRUE

\* child.wait() returns once the child has exited.
WaitReturns == childState = "exited"

\* The exit waiter: child.wait() returns Ok or Err, and the one emit of that
\* arm is made, its result dropped.
WaitReturn ==
    /\ waiter = "waiting"
    /\ WaitReturns
    /\ waiter' = "done"
    /\ \E name \in {"process-exit", "process-exit-error"}, delivered \in BOOLEAN :
          termEvents' = Append(termEvents,
              [name |-> name, pid |-> spawned_pid, delivered |-> delivered,
               child |-> childState])
    /\ UNCHANGED <<mainVars, requestVars, loopVars, fallbackEvents, childVars, stdoutVars,
                   stderrVars, warnThread, spawnFrame>>

NextSpawn ==
    \/ SpawnCall
    \/ TrySpawn
    \/ Notify
    \/ StartStdout
    \/ StartStderr
    \/ StartWait
    \/ WarnEmit
    \/ ChildWriteOut
    \/ ChildWriteErr
    \/ ChildExit
    \/ StdoutRead
    \/ StderrRead
    \/ WaitReturn

SpecSpawn == InitSpawn /\ [][NextSpawn]_vars

\* The exit waiter is a thread of its own: once child.wait() can return, the
\* scheduler lets it run.
SpecSpawnFair == SpecSpawn /\ WF_vars(WaitReturn)

\* -------------------------------------------------------------- shell_quote
\* The replacement of escape_shell_single_quote: ' " ' " '
EscapedQuote == <<"'", "\"", "'", "\"", "'">>

\* A replacement that escapes the quote with a backslash and stays inside
\* the single-quoted string.
RECURSIVE escape_shell_single_quote_Backslash(_)
escape_shell_single_quote_Backslash(s) ==
    IF s = <<>> THEN <<>>
    ELSE (IF Head(s) = "'" THEN <<"\\", "'">> ELSE <<Head(s)>>)
            \o escape_shell_single_quote_Backslash(Tail(s))

\* s.replace('\'', "'\"'\"'")
RECURSIVE escape_shell_single_quote(_)
escape_shell_single_quote(s) ==
    IF s = <<>> THEN <<>>
    ELSE (IF Head(s) = "'" THEN EscapedQuote ELSE <<Head(s)>>)
            \o escape_shell_single_quote(Tail(s))

\* format!("'{}'", escape_shell_single_quote(s))
shell_quote(s) == <<"'">> \o escape_shell_single_quote(s) \o <<"'">>

\* What the shell makes of a command string, as a list of tokens: a word is
\* the string of its characters after quote removal; an operator, an
\* expansion and an unterminated quotation are tokens no word is equal to.
OperatorToken == <<"operator">>

ExpansionMark == "expansion"

UnterminatedToken == <<"unterminated">>

ShellBlanks == {" ", "\t"}

ShellOperators == {";", "&", "|", "<", ">", "(", ")", "\n"}

\* The characters a backslash escapes inside double quotes.
EscapableInDouble == {"$", Backtick, "\"", "\\", "\n"}

\* The position after the comment that starts at i: the next newline, or the
\* end of the string.
CommentEnd(str, i) ==
    IF \E j \in i..Len(str) : str[j] = "\n"
    THEN CHOOSE j \in i..Len(str) :
            /\ str[j] = "\n"
            /\ \A k \in i..(j - 1) : str[k] # "\n"
    ELSE Len(str) + 1

\* The word that is being built is finished, if there is one.
EndWord(word, inword, words) == IF inword THEN Append(words, word) ELSE words

\* Token recognition of the shell from position i: mode is plain, single or
\* double; word holds the characters of the word so far.
RECURSIVE ShellScan(_, _, _, _, _, _)
ShellScan(str, i, mode, word, inword, words) ==
    IF i > Len(str) THEN
        IF mode # "plain" THEN Append(words, UnterminatedToken)
        ELSE EndWord(word, inword, words)
    ELSE
        LET c == str[i]
            more == i < Len(str)
        IN
        CASE mode = "single" ->
                IF c = "'" THEN ShellScan(str, i + 1, "plain", word, TRUE, words)
                ELSE ShellScan(str, i + 1, "single", Append(word, c), TRUE, words)
          [] mode = "double" ->
                IF c = "\"" THEN ShellScan(str, i + 1, "plain", word, TRUE, words)
                ELSE IF c = "\\" /\ more /\ str[i + 1] \in EscapableInDouble THEN
                    IF str[i + 1] = "\n"
                    THEN ShellScan(str, i + 2, "double", word, TRUE, words)
                    ELSE ShellScan(str, i + 2, "double", Append(word, str[i + 1]), TRUE, words)
                ELSE IF c \in {"$", Backtick} THEN
                    ShellScan(str, i + 1, "double", Append(word, ExpansionMark), TRUE, words)
                ELSE ShellScan(str, i + 1, "double", Append(word, c), TRUE, words)
          [] OTHER ->
                IF c = "'" THEN ShellScan(str, i + 1, "single", word, TRUE, words)
                ELSE IF c = "\"" THEN ShellScan(str, i + 1, "double", word, TRUE, words)
                ELSE IF c = "\\" THEN
                    IF ~more THEN ShellScan(str, i + 1, "plain", Append(word, c), TRUE, words)
                    ELSE IF str[i + 1] = "\n"
                    THEN ShellScan(str, i + 2, "plain", word, inword, words)
                    ELSE ShellScan(str, i + 2, "plain", Append(word, str[i + 1]), TRUE, words)
                ELSE IF c \in ShellBlanks THEN
                    ShellScan(str, i + 1, "plain", <<>>, FALSE, EndWord(word, inword, words))
                ELSE IF c \in ShellOperators THEN
                    ShellScan(str, i + 1, "plain", <<>>, FALSE,
                              Append(EndWord(word, inword, words), OperatorToken))
                ELSE IF c \in {"$", Backtick} THEN
                    ShellScan(str, i + 1, "plain", Append(word, ExpansionMark), TRUE, words)
                ELSE IF c = "#" /\ ~inword THEN
                    ShellScan(str, CommentEnd(str, i), "plain", <<>>, FALSE, words)
                ELSE ShellScan(str, i + 1, "plain", Append(word, c), TRUE, words)

ShellRead(str) == ShellScan(str, 1, "plain", <<>>, FALSE, <<>>)

\* The characters of the strings that are quoted: a letter, both quotes, the
\* backslash, a blank, a newline and metacharacters.
QuoteChars == {"a", "'", "\"", "\\", " ", "\n", "$", ";", "&", "#", Backtick}

RECURSIVE QuoteStringsUpTo(_)
QuoteStringsUpTo(n) ==
    IF n = 0 THEN {<<>>}
    ELSE QuoteStringsUpTo(n - 1) \cup [1..n -> QuoteChars]

\* The strings of the tests: it's, and /path/to/project's files.
Its == <<"i", "t", "'", "s">>

ProjectsFiles ==
    <<"/", "p", "a", "t", "h", "/", "t", "o", "/", "p", "r", "o", "j", "e", "c", "t",
      "'", "s", " ", "f", "i", "l", "e", "s">>

QuoteInputs == QuoteStringsUpTo(MaxQuoteLen) \cup {Its, ProjectsFiles}

InitQuote ==
    /\ InitEnv
    /\ InitKill
    /\ InitPortOff
    /\ InitSpawnIdle
    /\ SHELL = <<>>
    /\ macos = FALSE
    /\ tree = [p \in Procs |-> p - 1]
    /\ v_command = <<>>
    /\ v_result = "none"
    /\ InitArgsOff
    /\ sq_s \in QuoteInputs
    /\ sq_result = <<>>
    /\ InitCacheOff
    /\ first_call = NoCall
    /\ InitStaticOff

\* A caller invokes shell_quote(sq_s).
ShellQuoteCall ==
    /\ sq_result = <<>>
    /\ sq_result' = Some(shell_quote(sq_s))
    /\ UNCHANGED <<sq_s, argsVars, cacheVars, first_call, staticVars, v_command, v_result, spawnVars, envVars, killVars,
                   portVars>>

NextQuote == ShellQuoteCall

SpecQuote == InitQuote /\ [][NextQuote]_vars

\* ------------------------------------------------------ get_runtime_version
\* What running `<runtime> --version` gives: the command could not be run or
\* its output is not UTF-8, or the first line of its output as the list of
\* its whitespace-separated tokens.
CommandFailed == <<"failed">>

VersionOutputs == {CommandFailed, <<"v20.11.0">>, <<"deno", "1.40.0">>}

\* The match on runtime: the Option<String> computed from the output.
DetectVersion(name, output) ==
    CASE name \in {"Node.js", "Bun"} ->
            IF output = CommandFailed THEN <<>> ELSE Some(output)
      [] name = "Deno" ->
            IF output = CommandFailed \/ Len(output) < 2 THEN <<>>
            ELSE Some(<<output[2]>>)
      [] OTHER -> <<>>

\* The outputs the match can see: no command is run for another name.
OutputsFor(name) ==
    IF name \in {"Node.js", "Deno", "Bun"} THEN VersionOutputs ELSE {CommandFailed}

\* A lookup that never finds the entry.
CacheHit_Never(map, name) == FALSE

\* cache_guard.get(runtime) is Some(..)
CacheHit(map, name) == map[name] # <<>>

\* get_runtime_version(runtime, _) up to the end of the lookup, under the
\* lock: a hit returns the cached Option, a miss goes on to the detection.
RvLookup(t) ==
    /\ rv_pc[t] = "idle"
    /\ rv_calls < MaxCalls
    /\ \E name \in Runtimes :
        /\ rv_calls' = rv_calls + 1
        /\ IF CacheHit(RUNTIME_VERSION_CACHE, name)
           THEN /\ rv_returned' = [rv_returned EXCEPT ![t] = Some(RUNTIME_VERSION_CACHE[name][1])]
                /\ UNCHANGED <<rv_pc, runtime, rv_overlap>>
           ELSE /\ rv_pc' = [rv_pc EXCEPT ![t] = "detect"]
                /\ runtime' = [runtime EXCEPT ![t] = name]
                /\ rv_overlap' =
                      [rv_overlap EXCEPT ![name] =
                          @ \/ \E u \in Callers \ {t} :
                                  rv_pc[u] # "idle" /\ runtime[u] = name]
                /\ UNCHANGED rv_returned
    /\ UNCHANGED <<RUNTIME_VERSION_CACHE, version, rv_writes>>
    /\ UNCHANGED <<argsVars, quoteVars, first_call, staticVars, v_command, v_result, spawnVars, envVars,
                   killVars, portVars>>

\* The match on runtime, with no lock held.
RvDetect(t) ==
    /\ rv_pc[t] = "detect"
    /\ \E output \in OutputsFor(runtime[t]) :
        version' = [version EXCEPT ![t] = DetectVersion(runtime[t], output)]
    /\ rv_pc' = [rv_pc EXCEPT ![t] = "insert"]
    /\ UNCHANGED <<RUNTIME_VERSION_CACHE, runtime, rv_returned, rv_calls, rv_writes,
                   rv_overlap>>
    /\ UNCHANGED <<argsVars, quoteVars, first_call, staticVars, v_command, v_result, spawnVars, envVars,
                   killVars, portVars>>

\* cache_guard.insert(runtime.to_string(), version.clone()) under the lock,
\* and the return of version, where the locals go out of scope.
RvInsert(t) ==
    /\ rv_pc[t] = "insert"
    /\ RUNTIME_VERSION_CACHE' =
          [RUNTIME_VERSION_CACHE EXCEPT ![runtime[t]] = Some(version[t])]
    /\ rv_writes' = [rv_writes EXCEPT ![runtime[t]] = @ + 1]
    /\ rv_returned' = [rv_returned EXCEPT ![t] = Some(version[t])]
    /\ rv_pc' = [rv_pc EXCEPT ![t] = "idle"]
    /\ runtime' = [runtime EXCEPT ![t] = "Node.js"]
    /\ version' = [version EXCEPT ![t] = <<>>]
    /\ UNCHANGED <<rv_calls, rv_overlap>>
    /\ UNCHANGED <<argsVars, quoteVars, first_call, staticVars, v_command, v_result, spawnVars, envVars,
                   killVars, portVars>>

InitCache ==
    /\ InitEnv
    /\ InitKill
    /\ InitPortOff
    /\ InitSpawnIdle
    /\ SHELL = <<>>
    /\ macos = FALSE
    /\ tree = [p \in Procs |-> p - 1]
    /\ v_command = <<>>
    /\ v_result = "none"
    /\ InitArgsOff
    /\ InitQuoteOff
    /\ InitCacheIdle
    /\ first_call = NoCall
    /\ InitStaticOff

NextCache ==
    \E t \in Callers :
        \/ RvLookup(t)
        \/ RvDetect(t)
        \/ RvInsert(t)

SpecCache == InitCache /\ [][NextCache]_vars

\* ------------------------------------------- validate_command_args on its own
InitArgs ==
    /\ InitEnv
    /\ InitKill
    /\ InitPortOff
    /\ InitSpawnIdle
    /\ SHELL = <<>>
    /\ macos = FALSE
    /\ tree = [p \in Procs |-> p - 1]
    /\ v_command = <<>>
    /\ v_result = "none"
    /\ va_args \in ArgListInputs
    /\ va_result = "none"
    /\ InitQuoteOff
    /\ InitCacheOff
    /\ first_call = NoCall
    /\ InitStaticOff

\* A caller invokes validate_command_args(va_args).
ValidateArgsCall ==
    /\ va_result = "none"
    /\ va_result' = validate_command_args(va_args)
    /\ UNCHANGED <<va_args, quoteVars, cacheVars, first_call, staticVars, v_command, v_result, spawnVars, envVars, killVars, portVars>>

NextArgs == ValidateArgsCall

SpecArgs == InitArgs /\ [][NextArgs]_vars

\* -------------------------------------------------------------- detect_port
\* The statically detected port of a project directory (port.rs).  A
\* directory is a record: the framework that detect_framework_from_path
\* finds in it, the three configuration files of that framework in the order
\* in which they are read (NoFile, or Some of the lines of the file), and the
\* scripts object of package.json (NoFile when the file is missing, is not
\* JSON or holds no scripts object; otherwise Some of the Option dev and the
\* Option start script).

\* The longest script, in words, and the longest configuration file, in lines.
MaxWords == 2
MaxConfigLines == 2

DigitChars == <<"0", "1", "2", "3", "4", "5", "6", "7", "8", "9">>

IsAsciiDigit(c) == c \in Range(DigitChars)

DigitValue(c) == (CHOOSE d \in 1..10 : DigitChars[d] = c) - 1

RECURSIVE DecimalValue(_)
DecimalValue(digits) ==
    IF digits = <<>> THEN 0
    ELSE 10 * DecimalValue(SubSeq(digits, 1, Len(digits) - 1))
             + DigitValue(digits[Len(digits)])

\* str.parse::<u16>(): an optional plus sign, then one decimal digit or more,
\* in the range of u16; Option of the value (ok() of the Result).
parse_u16(str) ==
    LET digits == IF str # <<>> /\ str[1] = "+" THEN Tail(str) ELSE str
    IN IF digits = <<>> \/ \E i \in 1..Len(digits) : ~IsAsciiDigit(digits[i])
       THEN <<>>
       ELSE IF DecimalValue(digits) > U16_MAX THEN <<>> ELSE <<DecimalValue(digits)>>

\* char::is_whitespace, for the characters of the inputs
IsWhitespace(c) == c \in {" ", "\t", "\n"}

RECURSIVE SplitScan(_, _, _, _)
SplitScan(s, i, word, words) ==
    LET closed == IF word = <<>> THEN words ELSE Append(words, word)
    IN IF i > Len(s) THEN closed
       ELSE IF IsWhitespace(s[i]) THEN SplitScan(s, i + 1, <<>>, closed)
       ELSE SplitScan(s, i + 1, Append(word, s[i]), words)

\* s.split_whitespace().collect()
split_whitespace(s) == SplitScan(s, 1, <<>>, <<>>)

\* word.strip_prefix(prefix): Option of the rest
strip_prefix(word, prefix) ==
    IF Len(word) >= Len(prefix) /\ SubSeq(word, 1, Len(prefix)) = prefix
    THEN <<SubSeq(word, Len(prefix) + 1, Len(word))>>
    ELSE <<>>

\* a.or_else(|| b)
OrElse(a, b) == IF a # <<>> THEN a ELSE b

\* word.split(':').last()
AfterLastColon(word) ==
    LET colons == {i \in 1..Len(word) : word[i] = ":"}
    IN IF colons = {} THEN word
       ELSE SubSeq(word, (CHOOSE i \in colons : \A j \in colons : j <= i) + 1, Len(word))

FlagPort == <<"-", "-", "p", "o", "r", "t">>
FlagP == <<"-", "p">>
EnvPortEq == <<"P", "O", "R", "T", "=">>
FlagPortEq == <<"-", "-", "p", "o", "r", "t", "=">>
FlagPEq == <<"-", "p", "=">>

\* if (*word == "--port" || *word == "-p") && i + 1 < words.len()
PortAfterFlag(words, i) ==
    IF (words[i] = FlagPort \/ words[i] = FlagP) /\ i + 1 <= Len(words)
    THEN parse_u16(words[i + 1])
    ELSE <<>>

\* PORT=3000, --port=3000 or -p=3000
PortAfterEquals(word) ==
    LET port_str == OrElse(strip_prefix(word, EnvPortEq),
                           OrElse(strip_prefix(word, FlagPortEq),
                                  strip_prefix(word, FlagPEq)))
    IN IF port_str = <<>> THEN <<>> ELSE parse_u16(port_str[1])

\* :3000 or localhost:3000
PortAfterColon(word) ==
    LET port_str == AfterLastColon(word)
    IN IF ~ContainsChar(word, ":") THEN <<>>
       ELSE IF ~(Len(port_str) <= 5 /\ \A i \in 1..Len(port_str) : IsAsciiDigit(port_str[i]))
       THEN <<>>
       ELSE IF parse_u16(port_str) = <<>> THEN <<>>
       ELSE IF parse_u16(port_str)[1] > 0 THEN parse_u16(port_str) ELSE <<>>

\* for (i, word) in words.iter().enumerate(), from the word at position i
RECURSIVE WordsLoop(_, _)
WordsLoop(words, i) ==
    IF i > Len(words) THEN <<>>
    ELSE IF PortAfterFlag(words, i) # <<>> THEN PortAfterFlag(words, i)
    ELSE IF PortAfterEquals(words[i]) # <<>> THEN PortAfterEquals(words[i])
    ELSE IF PortAfterColon(words[i]) # <<>> THEN PortAfterColon(words[i])
    ELSE WordsLoop(words, i + 1)

\* extract_port_from_string(s)
extract_port_from_string(s) == WordsLoop(split_whitespace(s), 1)

\* line.find(pattern): Option of the position of the first occurrence, from 1
FindStr(line, pattern) ==
    LET at == {i \in 1..(Len(line) - Len(pattern) + 1) :
                  SubSeq(line, i, i + Len(pattern) - 1) = pattern}
    IN IF at = {} THEN <<>> ELSE <<CHOOSE i \in at : \A j \in at : i <= j>>

\* The characters at which extract_port_from_line splits the value.
IsValueEnd(c) == IsWhitespace(c) \/ c \in {",", "}", ")", "]"}

\* value_part.split(..).find(|s| !s.is_empty()).unwrap_or("")
FirstPiece(value_part) ==
    LET starts == {i \in 1..Len(value_part) : ~IsValueEnd(value_part[i])}
        first == CHOOSE i \in starts : \A j \in starts : i <= j
        ends == {i \in first..Len(value_part) : IsValueEnd(value_part[i])}
    IN IF starts = {} THEN <<>>
       ELSE IF ends = {} THEN SubSeq(value_part, first, Len(value_part))
       ELSE SubSeq(value_part, first, (CHOOSE i \in ends : \A j \in ends : i <= j) - 1)

\* str.trim_matches(c)
trim_matches(str, c) ==
    LET keep == {i \in 1..Len(str) : str[i] # c}
    IN IF keep = {} THEN <<>>
       ELSE SubSeq(str, CHOOSE i \in keep : \A j \in keep : i <= j,
                        CHOOSE i \in keep : \A j \in keep : j <= i)

\* str.trim()
trim(str) ==
    LET keep == {i \in 1..Len(str) : ~IsWhitespace(str[i])}
    IN IF keep = {} THEN <<>>
       ELSE SubSeq(str, CHOOSE i \in keep : \A j \in keep : i <= j,
                        CHOOSE i \in keep : \A j \in keep : j <= i)

\* extract_port_from_line(line, key)
extract_port_from_line(line, key) ==
    LET search_pattern == key \o <<":">>
        key_pos == FindStr(line, search_pattern)
        value_start == key_pos[1] + Len(search_pattern)
        value_part == SubSeq(line, value_start, Len(line))
        port_str == trim_matches(trim_matches(trim_matches(trim_matches(trim_matches(
                        trim(FirstPiece(value_part)), "\""), "'"), "{"), "["), "(")
    IN IF key_pos = <<>> THEN <<>>
       ELSE IF value_start > Len(line) THEN <<>>
       ELSE IF parse_u16(port_str) = <<>> THEN <<>>
       ELSE IF parse_u16(port_str)[1] > 0 THEN parse_u16(port_str) ELSE <<>>

\* str.starts_with(prefix)
starts_with(str, prefix) == strip_prefix(str, prefix) # <<>>

\* Skip lines that are comments
IsCommentLine(line) ==
    \/ starts_with(trim(line), <<"/", "/">>)
    \/ starts_with(trim(line), <<"#">>)
    \/ starts_with(trim(line), <<"/", "*">>)
    \/ starts_with(trim(line), <<"*">>)

\* if line.contains(key) && line.contains(':') { extract_port_from_line(..) }
PortOfLine(line, key) ==
    IF Contains(line, key) /\ ContainsChar(line, ":")
    THEN extract_port_from_line(line, key)
    ELSE <<>>

ServerColon == <<"s", "e", "r", "v", "e", "r", ":">>
ServerBrace == <<"s", "e", "r", "v", "e", "r", " ", "{">>

\* The lines after a `server:` line, at most three, that are searched.
NestedPort(lines, i, key) ==
    LET found == {j \in (i + 1)..(IF i + 3 < Len(lines) THEN i + 3 ELSE Len(lines)) :
                     ~IsCommentLine(lines[j]) /\ PortOfLine(lines[j], key) # <<>>}
    IN IF ~(Contains(lines[i], ServerColon) \/ Contains(lines[i], ServerBrace)) THEN <<>>
       ELSE IF found = {} THEN <<>>
       ELSE PortOfLine(lines[CHOOSE j \in found : \A k \in found : j <= k], key)

\* for (i, line) in lines.iter().enumerate(), from the line at position i
RECURSIVE LinesLoop(_, _, _)
LinesLoop(lines, i, key) ==
    IF i > Len(lines) THEN <<>>
    ELSE IF IsCommentLine(lines[i]) THEN LinesLoop(lines, i + 1, key)
    ELSE IF PortOfLine(lines[i], key) # <<>> THEN PortOfLine(lines[i], key)
    ELSE IF NestedPort(lines, i, key) # <<>> THEN NestedPort(lines, i, key)
    ELSE LinesLoop(lines, i + 1, key)

\* extract_port_from_config_file(content, key); content.lines() is lines
extract_port_from_config_file(lines, key) == LinesLoop(lines, 1, key)

KeyPort == <<"p", "o", "r", "t">>

\* for config_path in config_files, from the file at position i
RECURSIVE ConfigFilesLoop(_, _)
ConfigFilesLoop(configs, i) ==
    IF i > Len(configs) THEN <<>>
    ELSE IF configs[i] = NoFile THEN ConfigFilesLoop(configs, i + 1)
    ELSE IF extract_port_from_config_file(configs[i][1], KeyPort) # <<>>
    THEN extract_port_from_config_file(configs[i][1], KeyPort)
    ELSE ConfigFilesLoop(configs, i + 1)

\* detect_astro_port, detect_nextjs_port and detect_vite_port differ in the
\* names of the three files only.
detect_port_from_config(path, framework) ==
    IF framework \in {"astro", "nextjs", "vite"}
    THEN ConfigFilesLoop(path.configs, 1)
    ELSE <<>>

\* scripts.get(name).and_then(|s| s.as_str()), then extract_port_from_string
PortOfScript(script) ==
    IF script = <<>> THEN <<>> ELSE extract_port_from_string(script[1])

\* detect_port_from_package_json(path)
detect_port_from_package_json(path) ==
    IF path.package_json = NoFile THEN <<>>
    ELSE OrElse(PortOfScript(path.package_json[1].dev),
                PortOfScript(path.package_json[1].start))

\* get_default_port(framework)
get_default_port(framework) ==
    CASE framework = "astro" -> <<4321>>
      [] framework = "nextjs" -> <<3000>>
      [] framework = "vite" -> <<5173>>
      [] framework = "react" -> <<3000>>
      [] framework = "sveltekit" -> <<5173>>
      [] framework = "nuxt" -> <<3000>>
      [] OTHER -> <<3000>>

\* detect_port(path)
detect_port(path) ==
    OrElse(detect_port_from_config(path, path.framework),
           OrElse(detect_port_from_package_json(path),
                  get_default_port(path.framework)))

\* The words of the scripts: a command, the two flags, numbers, and the
\* one-word forms.
Vite == <<"v", "i", "t", "e">>
NumZero == <<"0">>
NumEighty == <<"8", "0">>
NumTooBig == <<"7", "0", "0", "0", "0">>
HostColon == <<"l", "o", "c", "a", "l", "h", "o", "s", "t", ":">>

ScriptWords ==
    {Vite, FlagPort, FlagP, NumZero, NumEighty, NumTooBig,
     EnvPortEq \o NumZero, EnvPortEq \o NumEighty,
     FlagPortEq \o NumZero, FlagPortEq \o NumEighty,
     FlagPEq \o NumZero, FlagPEq \o NumTooBig,
     <<":">> \o NumZero, HostColon \o NumZero, HostColon \o NumEighty}

RECURSIVE JoinWords(_)
JoinWords(words) ==
    IF words = <<>> THEN <<>>
    ELSE IF Len(words) = 1 THEN words[1]
    ELSE words[1] \o <<" ">> \o JoinWords(Tail(words))

Scripts ==
    {JoinWords(ws) : ws \in UNION {[1..n -> ScriptWords] : n \in 0..MaxWords}}

LineServer == <<"s", "e", "r", "v", "e", "r", ":", " ", "{">>
LinePortZero == <<" ", " ", "p", "o", "r", "t", ":", " ", "0", ",">>
LinePort == <<" ", " ", "p", "o", "r", "t", ":", " ", "4", "3", "2", "1", ",">>
LinePortQuoted == <<"\"", "p", "o", "r", "t", "\"", ":", " ", "\"", "8", "0", "8", "0", "\"", "}">>
LineComment == <<"/", "/", " ", "p", "o", "r", "t", ":", " ", "9", "0", "0", "0">>
LineClose == <<"}", ",">>

ConfigLines == {LineServer, LinePortZero, LinePort, LinePortQuoted, LineComment, LineClose}

ConfigContents == UNION {[1..n -> ConfigLines] : n \in 0..MaxConfigLines}

\* Directories of a framework with configuration files: the first file is
\* any content or missing, the second and the third are short.
ConfiguredProjects ==
    {[framework |-> f, configs |-> <<a, b, c>>, package_json |-> p] :
        f \in {"astro", "nextjs", "vite"},
        a \in {NoFile} \cup {<<x>> : x \in ConfigContents},
        b \in {NoFile, <<<<LinePortZero>>>>, <<<<LinePort>>>>},
        c \in {NoFile, <<<<LinePortQuoted>>>>},
        p \in {NoFile, <<[dev |-> <<JoinWords(<<Vite, FlagPort, NumEighty>>)>>,
                          start |-> <<>>]>>}}
        \ {[framework |-> f, configs |-> <<NoFile, NoFile, NoFile>>, package_json |-> p] :
              f \in {"astro", "nextjs", "vite"},
              p \in {NoFile, <<[dev |-> <<JoinWords(<<Vite, FlagPort, NumEighty>>)>>,
                                start |-> <<>>]>>}}

\* Directories without a configuration file that is read: package.json
\* with a dev script, a start script, both or none.
ScriptedProjects ==
    {[framework |-> f, configs |-> <<NoFile, NoFile, NoFile>>,
      package_json |-> <<[dev |-> d, start |-> s]>>] :
        f \in {"react", "unknown"},
        d \in {<<>>} \cup {<<x>> : x \in Scripts},
        s \in {<<>>, <<Vite>>, <<JoinWords(<<Vite, FlagP, NumZero>>)>>,
               <<EnvPortEq \o NumEighty>>}}

ProjectInputs ==
    ConfiguredProjects \cup ScriptedProjects
        \cup {[framework |-> f, configs |-> <<NoFile, NoFile, NoFile>>, package_json |-> NoFile] :
                 f \in {"react", "sveltekit", "nuxt", "unknown"}}

InitStatic ==
    /\ InitEnv
    /\ InitKill
    /\ InitPortOff
    /\ InitSpawnIdle
    /\ SHELL = <<>>
    /\ macos = FALSE
    /\ tree = [p \in Procs |-> p - 1]
    /\ v_command = <<>>
    /\ v_result = "none"
    /\ InitArgsOff
    /\ InitQuoteOff
    /\ InitCacheOff
    /\ first_call = NoCall
    /\ dp_path \in ProjectInputs
    /\ dp_result = NotCalled

\* scan_directory calls detect_port(&project_path).
DetectPortCall ==
    /\ dp_result = NotCalled
    /\ dp_result' = detect_port(dp_path)
    /\ UNCHANGED <<dp_path, argsVars, quoteVars, cacheVars, first_call, v_command, v_result,
                   spawnVars, envVars, killVars, portVars>>

NextStatic == DetectPortCall

SpecStatic == InitStatic /\ [][NextStatic]_vars

\* ------------------------------------------------------------ properties
\* The kill attempts of the main pass, in order.
PassLog == SelectSeq(killLog, LAMBDA e : e.phase = "pass")

\* Position of a PID in the discovered list.
Pos(p) == CHOOSE i \in 1..Len(all_pids) : all_pids[i] = p

\* The walk has finished and no process has been ended yet.
WalkComplete == pc \in {"ancestors", "kill", "grace"} /\ alive = Procs

\* C1: no kill attempt, in the main pass or in the retry, targets the
\* supervisor's own PID or a PID of the AncestorSet computed for the call.
C1_NoKillOfSelfOrAncestorSet ==
    \A i \in 1..Len(killLog) :
        /\ killLog[i].target # current_pid
        /\ killLog[i].target \notin ancestor_pids

\* C1 witness: the walk discovered the supervisor and a member of the
\* AncestorSet, kills were attempted, and the call returned.
C1_Witness ==
    /\ pc = "done"
    /\ current_pid \in Range(all_pids)
    /\ ancestor_pids \cap Range(all_pids) # {}
    /\ Len(killLog) >= 2

\* C2: kill_tree(supervisor) and kill_tree(A) for a real ancestor A never send
\* a kill to the supervisor or to one of its real ancestors, whatever the
\* parent lookups returned, and the supervisor is alive after the call.
C2_RealAncestorsNeverKilled ==
    (pid = current_pid \/ pid \in RealAncestors) =>
        /\ \A i \in 1..Len(killLog) :
              killLog[i].target \notin RealAncestors \cup {current_pid}
        /\ pc = "done" => current_pid \in alive

\* C3: the kill attempts of the pass are in the reverse of discovery order: a
\* PID listed as a child of p is attempted before p, and root is attempted last.
C3_ReverseDiscoveryOrder ==
    /\ \A i, j \in 1..Len(PassLog) :
          i < j => Pos(PassLog[i].target) > Pos(PassLog[j].target)
    /\ \A i, j \in 1..Len(PassLog) :
          disc[Pos(PassLog[i].target)].by = PassLog[j].target => i < j
    /\ \A i \in 1..Len(PassLog) :
          PassLog[i].target = pid => i = Len(PassLog)

\* C3 witness: a pass over a root, a child and a grandchild has ended with
\* the attempt on root.
C3_Witness ==
    /\ pc \in {"grace", "done"}
    /\ Len(PassLog) >= 3
    /\ PassLog[Len(PassLog)].target = pid
    /\ \E i \in 1..Len(PassLog) : disc[Pos(PassLog[i].target)].depth >= 2

\* C4 (as stated): over a tree that does not change, the walk discovers root
\* and all of root's transitive descendants, at any depth.
C4_DiscoversAllDescendants ==
    (WalkComplete /\ ~noisy) => Range(all_pids) = {pid} \cup AllDesc(pid)

\* C4 (amended): over a tree that does not change, the walk discovers root and
\* exactly root's descendants at distance at most 4.
C4_DiscoversDescendantsWithinFourLevels ==
    (WalkComplete /\ ~noisy) =>
        Range(all_pids) = {pid} \cup DescWithin({pid}, MAX_LEVELS)

\* C4 witness: the walk has finished over a tree with a descendant at
\* distance 4 of root and another one beyond it.
C4_Witness ==
    /\ WalkComplete
    /\ ~noisy
    /\ DescWithin({pid}, MAX_LEVELS) # DescWithin({pid}, MAX_LEVELS - 1)
    /\ AllDesc(pid) # DescWithin({pid}, MAX_LEVELS)

\* C5: when kill_tree(root) returns success for a root that is neither the
\* supervisor nor one of its ancestors, root no longer exists.
C5_RootGoneOnSuccess ==
    (pc = "done" /\ result = "Ok" /\ pid # current_pid /\ pid \notin RealAncestors)
        => pid \notin alive

\* C6 (as stated): if root does not exist when the call starts, the call fails
\* with not-found, and no children query and no kill attempt is made.
C6_MissingRootIsNotFound ==
    (pc = "done" /\ ~rootExisted) =>
        /\ result = "NotFound"
        /\ pgrepLog = <<>>
        /\ killLog = <<>>

\* C6 (amended): if root does not exist when the call starts, no children
\* query and no kill attempt is made, and the call fails: with not-found when
\* ps could be run, with the I/O error when it could not; not-found is
\* returned for no other condition.
C6_MissingRootFailsWithoutQueries ==
    /\ (pc # "idle" /\ ~rootExisted) =>
          /\ pc \in {"check", "done"}
          /\ pgrepLog = <<>>
          /\ killLog = <<>>
          /\ pc = "done" => /\ result \in {"NotFound", "IoError"}
                            /\ result = "NotFound" <=> faults = MaxFaults
    /\ (pc = "done" /\ result = "NotFound") => ~rootExisted

\* C6 witness: a call for a PID that names no process has returned not-found.
C6_Witness == pc = "done" /\ ~rootExisted /\ result = "NotFound" /\ pid = NoPid

\* C7: a failed kill of a non-root member never fails the call and never stops
\* the remaining attempts; every failed kill of root (kill reports failure, or
\* kill cannot be run) fails the call.
C7_OnlyRootKillFailureFails ==
    /\ (pc = "done" /\ result = "CommandError") =>
          /\ PassLog # <<>>
          /\ PassLog[Len(PassLog)].target = pid
    /\ (pc \in {"grace", "retry"} \/ (pc = "done" /\ result = "Ok")) =>
          \A p \in Range(all_pids) :
              ~Excluded(p) => \E i \in 1..Len(PassLog) : PassLog[i].target = p
    /\ \A i \in 1..Len(PassLog) :
          (PassLog[i].target = pid /\ ~(PassLog[i].ran /\ PassLog[i].success))
              => (pc = "done" => result # "Ok")

\* C8: the list of the walk has root first, holds every PID at most once,
\* lists depth d before depth d+1, every PID one level below the PID that
\* listed it, and is [root] when the listing of root is empty.
C8_WalkListIsBreadthFirstAndUnique ==
    all_pids # <<>> =>
        /\ all_pids[1] = pid
        /\ \A i, j \in 1..Len(all_pids) : all_pids[i] = all_pids[j] => i = j
        /\ Len(disc) = Len(all_pids)
        /\ \A i, j \in 1..Len(all_pids) : i < j => disc[i].depth <= disc[j].depth
        /\ \A i \in 2..Len(all_pids) :
              \E j \in 1..(i - 1) : /\ all_pids[j] = disc[i].by
                                    /\ disc[i].depth = disc[j].depth + 1
        /\ (pc \notin {"check", "walk"} /\ pgrepLog[1].out = <<>>) => all_pids = <<pid>>

\* C8 witness: the walk has finished and two listings, of different parents,
\* reported the same PID.
C8_Witness ==
    /\ pc \in {"ancestors", "kill"}
    /\ Len(all_pids) >= 4
    /\ \E i, j \in 1..Len(pgrepLog) :
          /\ i # j
          /\ Range(pgrepLog[i].out) \cap Range(pgrepLog[j].out) \cap Procs # {}

\* C9: a children listing that cannot be run or returns invalid text is
\* treated as an empty branch; the call returns no error for it.
C9_ListingFailureYieldsNothing ==
    (pc = "done" /\ walkFault # "none") => result \notin {"IoError", "Utf8Error"}

\* What `lsof -p` showed for p, parsed by the loop that read it.
RootShown == {RootPort(e.out) : e \in {x \in lsofLog : x.pid = pid}}
ChildShown == {ChildPort(e.out) : e \in {x \in lsofLog : x.pid \in all_child_pids}}

\* The descendants of root within the shallow depth.
Shallow == DescWithin({pid}, MAX_CHILD_LEVELS)

\* C10: find_port returns on the first tier that hits: the port of root itself
\* whatever the descendants and the well-known ports show; otherwise the port
\* of a shallow descendant, without consulting the well-known ports; these are
\* consulted only when root and every shallow descendant showed nothing.
C10_FirstTierThatHitsWins ==
    /\ (pc = "done" /\ RootShown \ {None} # {}) =>
          /\ result = "Ok"
          /\ {port} = RootShown
          /\ pgrepLog = <<>>
          /\ ChildShown = {}
          /\ probed = 0
    /\ (pc = "done" /\ result = "Ok" /\ listen[pid] # 0) => port = listen[pid]
    /\ (pc = "done" /\ result = "Ok" /\ listen[pid] = 0
            /\ \E c \in Shallow : listen[c] # 0) =>
          /\ port \in ChildShown \ {None}
          /\ port \in {listen[c] : c \in Shallow}
          /\ probed = 0
    /\ probed > 0 =>
          /\ RootShown = {None}
          /\ all_child_pids = Shallow
          /\ \A c \in Shallow :
                /\ listen[c] = 0
                /\ \E e \in lsofLog : e.pid = c /\ ChildPort(e.out) = None
          /\ listen[pid] = 0

\* C10 witness: root listens on nothing, a shallow descendant listens on a
\* port, another process listens on a well-known port, and the call returned
\* the descendant's port.
C10_Witness ==
    /\ pc = "done"
    /\ result = "Ok"
    /\ listen[pid] = 0
    /\ port = 9999
    /\ \E c \in Shallow : listen[c] = 9999
    /\ \E p \in Procs : listen[p] = 3000
    /\ probed = 0

\* The first k links of the real parent chain of p.
RECURSIVE UpLinks(_, _)
UpLinks(p, k) ==
    IF k = 0 \/ p \notin Procs THEN {}
    ELSE {tree[p]} \cup UpLinks(tree[p], k - 1)

\* p is root, a descendant the walk discovered, or has one of them among the
\* first 5 links of its parent chain.
PassesOwnership(p) ==
    \/ p = pid
    \/ p \in all_child_pids
    \/ UpLinks(p, MAX_PPID_DEPTH) \cap ({pid} \cup all_child_pids) # {}

\* The call returned a port from the well-known-port tier.
ReturnedByProbe == pc = "done" /\ result = "Ok" /\ port # None /\ probed > 0

\* C11: the well-known-port tier returns a port only if some PID reported for
\* that port is root, a discovered descendant, or has root or a discovered
\* descendant among the first 5 links of its parent chain.
C11_ProbeReturnsOwnedPortsOnly ==
    ReturnedByProbe =>
        /\ port = test_ports[probed]
        /\ \E p \in Range(Listeners(port)) : PassesOwnership(p)

\* C11 witness: the tier returned a well-known port whose listeners are neither
\* root nor discovered descendants: one of them has a discovered descendant in
\* its parent chain.
C11_Witness ==
    /\ ReturnedByProbe
    /\ \A p \in Range(Listeners(port)) : p # pid /\ p \notin all_child_pids
    /\ \E p \in Range(Listeners(port)) : PassesOwnership(p)

\* A listing of the call held a line that lsof does not print for a socket.
JunkShown == \E e \in lsofLog : LsofIsJunk(e.pid, e.out)

\* The utility failures of the call, the malformed line not counted.
RealFaults == (MaxFaults - faults) - (IF JunkShown THEN 1 ELSE 0)

\* C12: a returned port is in 1..65535; a port taken from a listing comes from
\* a line of at least 9 columns whose port text is that number; and a
\* malformed line never fails the call: an error is returned only when a
\* utility failed.
C12_ReturnedPortIsPositiveU16 ==
    /\ (pc = "done" /\ result = "Ok" /\ port # None) =>
          /\ port \in 1..U16_MAX
          /\ probed = 0 =>
                \E e \in lsofLog : \E i \in 2..Len(e.out) :
                    e.out[i].cols >= 9 /\ e.out[i].text = port
    /\ (pc = "done" /\ result \in {"IoError", "Utf8Error"}) => RealFaults > 0

\* C12 witness: a listing held a line of 8 columns naming port 3000 before the
\* line of the socket, and the call returned the port of the socket.
C12_Witness ==
    /\ pc = "done"
    /\ result = "Ok"
    /\ port = 9999
    /\ \E e \in lsofLog :
          /\ Len(e.out) = 3
          /\ e.out[2] = Line(8, TRUE, 3000)
          /\ e.out[3] = GoodLine(9999)

\* l is the only process of the tree of root that listens on a TCP port.
OnlyListener(l) ==
    /\ l \in {pid} \cup AllDesc(pid)
    /\ listen[l] # 0
    /\ \A q \in ({pid} \cup AllDesc(pid)) \ {l} : listen[q] = 0

\* l is within reach of the three tiers: root or a descendant of the shallow
\* depth, or a listener on a well-known port with one of them among the first
\* 5 links of its parent chain.
WithinReach(l) ==
    \/ l \in {pid} \cup Shallow
    \/ /\ listen[l] \in Range(test_ports)
       /\ UpLinks(l, MAX_PPID_DEPTH) \cap ({pid} \cup Shallow) # {}

WhitelistNames ==
    {<<"n", "p", "m">>, <<"p", "n", "p", "m">>,
     <<"y", "a", "r", "n">>, <<"b", "u", "n">>,
     <<"d", "e", "n", "o">>}

\* The characters that no accepted name may hold.
ForbiddenInNames ==
    {"/", "\\", ";", "&", "|", Backtick, "$", "(", ")", "<", ">", "\n", "\r"}

\* C20: validate_command(name) succeeds if and only if name is exactly one of
\* npm, pnpm, yarn, bun, deno, case-sensitively; every name that is empty or
\* holds a path separator or a shell metacharacter is rejected.
C20_AcceptsExactlyTheWhitelist ==
    v_result # "none" =>
        /\ v_result = "Ok" <=> v_command \in WhitelistNames
        /\ (v_command = <<>> \/ \E i \in 1..Len(v_command) :
                                  v_command[i] \in ForbiddenInNames) =>
              v_result # "Ok"

\* C20 witness: validate_command has rejected "Npm" as not being on the list.
C20_Witness == v_command = <<"N", "p", "m">> /\ v_result = "not_allowed"

\* The request fails a validation: the command is none of the five names, an
\* argument holds a metacharacter, or the directory is not a project directory.
RequestInvalid ==
    \/ command \notin WhitelistNames
    \/ \E i \in 1..Len(args) : \E j \in 1..Len(args[i]) :
          args[i][j] \in ForbiddenInNames \ {"/", "\\"}
    \/ cwd # GoodPath

\* No process, no thread and no event exists for the request.
NothingStarted ==
    /\ attempts = <<>>
    /\ children = <<>>
    /\ childState = "none"
    /\ spawned_pid = None
    /\ outReader = "none" /\ errReader = "none" /\ waiter = "none"
    /\ warnThread = "none"
    /\ fallbackEvents = <<>> /\ outEvents = <<>> /\ errEvents = <<>>
    /\ termEvents = <<>>

\* C14: a request that validation of the command, of the arguments or of the
\* directory rejects has returned that error by the time the call has taken
\* its first step, and no shell is spawned, no reader or waiter is started and
\* no event is emitted for it.
C14_RejectedRequestStartsNothing ==
    (s_pc # "idle" /\ RequestInvalid) =>
        /\ s_pc = "returned"
        /\ s_result = (IF command \notin WhitelistNames THEN "CommandRejected"
                       ELSE IF validate_command_args(args) # "Ok" THEN "ArgumentsRejected"
                       ELSE "PathRejected")
        /\ NothingStarted

\* C14 witness: a request with a whitelisted command and clean arguments, for
\* a directory that does not exist, was rejected.
C14_Witness ==
    /\ s_pc = "returned"
    /\ s_result = "PathRejected"
    /\ command \in WhitelistNames
    /\ ~cwd.exists /\ ~cwd.empty
    /\ NothingStarted

\* The request has passed the three validations.
Validated == s_pc # "idle" /\ ~RequestInvalid

\* C15: the spawn calls are made in list order, one per candidate, none after
\* a spawn call has succeeded, so that at most one child is created; and a
\* validated request returns the spawn error if and only if the spawn call of
\* every candidate has failed.
C15_FirstCandidateThatSpawnsIsUsed ==
    Validated =>
        /\ \A i \in 1..Len(attempts) :
              attempts[i].index = i - 1 /\ attempts[i].shell = shells[i].path
        /\ Len(attempts) <= Len(shells)
        /\ Len(children) <= 1
        /\ children # <<>> =>
              /\ Len(attempts) = children[1] + 1
              /\ used_shell = Some(shells[children[1] + 1].path)
              /\ s_result # "SpawnFailed"
        /\ s_pc = "returned" =>
              (s_result = "SpawnFailed" <=>
                  (children = <<>> /\ Len(attempts) = Len(shells)))
        /\ (s_pc = "returned" /\ children = <<>>) => s_result = "SpawnFailed"

\* C15 witness: the spawn calls of the first two candidates failed, the third
\* created the child, and the call returned Ok.
C15_Witness ==
    /\ s_pc = "returned"
    /\ s_result = "Ok"
    /\ Len(attempts) = 3
    /\ children = <<2>>

\* The call has gone past the notification of lines 228-259.
PastNotify == s_pc \in {"start_stdout", "start_stderr", "start_wait", "returned"}

\* A candidate other than the first of the list has created the child.
FallbackUsed == children # <<>> /\ children[1] > 0

\* C16: the process-shell-fallback emit is made exactly for the requests
\* whose child was created by a candidate other than the first, once, naming
\* the first candidate as preferred and the candidate that created the child
\* as used; it is not made when the first candidate created the child nor
\* when every spawn call failed.
C16_FallbackEventIffFallbackUsed ==
    /\ Len(fallbackEvents) <= 1
    /\ fallbackEvents # <<>> =>
          /\ FallbackUsed
          /\ fallbackEvents[1].preferredShell = shells[1].path
          /\ fallbackEvents[1].usedShell = shells[children[1] + 1].path
    /\ (PastNotify /\ FallbackUsed) => fallbackEvents # <<>>
    /\ (s_pc = "returned" /\ s_result = "SpawnFailed") => fallbackEvents = <<>>

\* C16 witness: the first candidate failed, the second created the child, the
\* event was delivered and the call returned Ok.
C16_Witness ==
    /\ s_pc = "returned"
    /\ s_result = "Ok"
    /\ children = <<1>>
    /\ Len(fallbackEvents) = 1
    /\ fallbackEvents[1].delivered
    /\ fallbackEvents[1].usedShell # fallbackEvents[1].preferredShell

\* The terminal events that the event channel delivered.
TermDelivered == SelectSeq(termEvents, LAMBDA e : e.delivered)

\* At most one terminal emit is made, only by the waiter of a call that
\* returns Ok, for the child of that call and after that child has exited.
AtMostOneTerminalEvent ==
    /\ Len(termEvents) <= 1
    /\ Len(TermDelivered) <= 1
    /\ termEvents # <<>> =>
          /\ s_result = "Ok"
          /\ waiter = "done"
          /\ termEvents[1].pid = spawned_pid
          /\ termEvents[1].child = "exited"
          /\ childState = "exited"

\* C17: for a spawn that returned Ok at most one terminal emit is ever made,
\* process-exit or process-exit-error and never both, and never before the
\* child has exited; and once the child has exited the emit is made, so that
\* exactly one terminal event is delivered when the emit succeeds.
C17_ExactlyOneTerminalEvent ==
    /\ []AtMostOneTerminalEvent
    /\ (s_result = "Ok" /\ childState = "exited") ~> (Len(termEvents) = 1)

\* C17 witness: the child has exited and process-exit was delivered, after
\* both readers had ended.
C17_Witness ==
    /\ s_result = "Ok"
    /\ childState = "exited"
    /\ Len(TermDelivered) = 1
    /\ termEvents[1].name = "process-exit"
    /\ outReader = "done" /\ errReader = "done"

\* The process-stderr events that carry a line of the child.
ErrFromChild == SelectSeq(errEvents, LAMBDA e : e.from = "child")

\* C18: the process-stdout events carry the lines 1, 2, .. that the child
\* wrote to stdout, in that order, each at most once and none that was not
\* written yet; the same for the process-stderr events that carry lines of
\* the child and the lines written to stderr.
C18_LinesInOrderPerStream ==
    /\ Len(outEvents) <= outRead /\ outRead <= outWritten
    /\ \A i \in 1..Len(outEvents) : outEvents[i] = i
    /\ Len(ErrFromChild) <= errRead /\ errRead <= errWritten
    /\ \A i \in 1..Len(ErrFromChild) : ErrFromChild[i].line = i

\* C18 witness: both lines of both streams were delivered, the warning of the
\* fallback between the two lines of stderr, and the terminal emit was made
\* while both readers were still running.
C18_Witness ==
    /\ outEvents = <<1, 2>>
    /\ Len(errEvents) = 3
    /\ errEvents[1].from = "child"
    /\ errEvents[2].from = "supervisor"
    /\ errEvents[3] = [from |-> "child", line |-> 2]
    /\ termEvents # <<>>
    /\ outReader = "running" /\ errReader = "running"

\* C19: once the spawn call of a candidate has created a child, the call
\* returns Ok with the PID of that child, whatever fails afterwards.
C19_ReturnsOkOnceSpawned ==
    (s_pc = "returned" /\ children # <<>>) =>
        /\ s_result = "Ok"
        /\ spawned_pid = ChildPid(children[1])

\* C21 as stated: validate_command("npm;rm -rf /") is rejected with the
\* dangerous-character reason, and validate_command("rm") with the
\* not-whitelisted reason.
C21_InjectionReportsDangerousCharacter ==
    /\ (v_command = InjectionAttempt /\ v_result # "none") =>
            v_result = "dangerous_characters"
    /\ (v_command = PlainRm /\ v_result # "none") => v_result = "not_allowed"

\* C21: validate_command("npm;rm -rf /") is rejected with the path-separator
\* reason, which is reached before the dangerous-character and the whitelist
\* checks; validate_command("npm;rm") is rejected with the
\* dangerous-character reason, reached before the whitelist check, and
\* validate_command("rm") with the not-whitelisted reason.
C21_InjectionReportsPathSeparator ==
    /\ (v_command = InjectionAttempt /\ v_result # "none") =>
            v_result = "path_separators"
    /\ (v_command = ChainedCommand /\ v_result # "none") =>
            v_result = "dangerous_characters"
    /\ (v_command = PlainRm /\ v_result # "none") => v_result = "not_allowed"

C21_Witness == v_command = InjectionAttempt /\ v_result = "path_separators"

\* The characters the claim forbids in an argument.
ForbiddenInArgs ==
    {";", "&", "|", Backtick, "$", "(", ")", "<", ">", "\n", "\r", Nul}

\* C22: validate_command_args(args) succeeds exactly when args has at most 100
\* elements, each of at most 1024 bytes and none holding a forbidden
\* character; 100 arguments and 1024 bytes are accepted, 101 and 1025 are
\* rejected, and `--port=4321` is accepted.
C22_ArgsAcceptedIffWithinCaps ==
    va_result # "none" =>
        /\ va_result = "Ok" <=>
              /\ Len(va_args) <= 100
              /\ \A i \in 1..Len(va_args) :
                    /\ ByteLen(va_args[i]) <= 1024
                    /\ \A j \in 1..Len(va_args[i]) : va_args[i][j] \notin ForbiddenInArgs
        /\ va_args = Rep(100, Dev) => va_result = "Ok"
        /\ va_args = Rep(101, Dev) => va_result = "too_many"
        /\ va_args = <<Rep(1024, "a")>> => va_result = "Ok"
        /\ va_args = <<Rep(1025, "a")>> => va_result = "too_long"
        /\ va_args = <<PortFlag>> => va_result = "Ok"

C22_Witness ==
    /\ Len(va_args) = 100
    /\ va_args[100] = Rep(1024, "a")
    /\ va_result = "Ok"

\* The number of single quotes of a string.
QuotesIn(str) == Cardinality({i \in 1..Len(str) : str[i] = "'"})

C24_EachNameWrittenAtMostOnce == \A name \in Runtimes : rv_writes[name] <= 1

\* C24: a runtime name is written to the cache at most once unless calls for
\* it overlap, and then at most once by each of the concurrent callers: a
\* call that looks the name up after a write of it does not write.
C24_EachNameWrittenOncePerOverlappingCaller ==
    \A name \in Runtimes :
        /\ rv_writes[name] <= Cardinality(Callers)
        /\ rv_writes[name] > 1 => rv_overlap[name]

C24_Witness ==
    /\ rv_writes["Node.js"] = 2
    /\ \A t \in Callers : rv_pc[t] = "idle"

\* C25: a PID that has reached kill_process_tree or detect_port_by_pid
\* through the commands is none of 0, 1 and the supervisor's own PID, and
\* validate_pid rejects each of the three.
C25_EntryPidsAreValidated ==
    /\ pc # "idle" => pid \notin {0, 1, SelfPid}
    /\ pc # "idle" => \A p \in {0, 1, SelfPid} : validate_pid(p) # "Ok"

\* A reader has taken a line from its pipe for which no event went out: the
\* emit failed, or the read returned an error.
OutFailed == Len(outEvents) < outRead

ErrFailed == Len(ErrFromChild) < errRead

\* A reader that has failed has terminated.
FailedReaderIsDone ==
    /\ OutFailed => outReader = "done"
    /\ ErrFailed => errReader = "done"

\* A reader that has failed emits nothing further, and the step in which it
\* fails changes nothing of the other reader, of the waiter, of the events
\* of the other channels or of the result of the call.
FailedReaderStep ==
    /\ OutFailed => outEvents' = outEvents
    /\ ErrFailed => ErrFromChild' = ErrFromChild
    /\ (~OutFailed /\ OutFailed') =>
          UNCHANGED <<stderrVars, waiter, warnThread, termEvents, fallbackEvents,
                      mainVars, childVars>>
    /\ (~ErrFailed /\ ErrFailed') =>
          UNCHANGED <<stdoutVars, errEvents, waiter, warnThread, termEvents,
                      fallbackEvents, mainVars, childVars>>

\* C26: when an emit of a reader fails or its read returns an error, the
\* reader emits nothing further and terminates; the other reader and the
\* waiter go on as before, and nothing reports the failure.
C26_FailedReaderStopsAlone == []FailedReaderIsDone /\ [][FailedReaderStep]_vars

C26_Witness ==
    /\ OutFailed
    /\ outEvents = <<>>
    /\ outReader = "done"
    /\ ~ErrFailed
    /\ Len(ErrFromChild) = MaxLines
    /\ Len(termEvents) = 1
    /\ s_result = "Ok"

\* C27: a second call of detect_port_by_pid with the same root, over the
\* same process tree and the same sockets, returns what the first returned.
C27_SecondCallReturnsTheSame ==
    (pc = "done" /\ first_call # NoCall) =>
        /\ result = first_call.result
        /\ port = first_call.port

\* The root of the call is the supervisor or a member of the AncestorSet that
\* the call computed, and the kill pass has begun.
RootIsProtected ==
    /\ pc \in {"kill", "grace", "retry", "done"}
    /\ ki >= 1
    /\ pid = current_pid \/ pid \in ancestor_pids

\* The kill pass has looked at every discovered PID.
PassOver == all_pids # <<>> /\ ki > Len(all_pids)

\* C28 as stated: kill_tree(root) for the supervisor or a member of its
\* AncestorSet sends no kill to any process.
C28_ProtectedRootKillsNothing == RootIsProtected => killLog = <<>>

\* C28: kill_tree(root) for the supervisor or a member of its AncestorSet
\* sends no kill to root, to the supervisor or to a member of the
\* AncestorSet and never retries; every other process that the tree walk
\* found is sent a kill in the pass.
C28_ProtectedRootKillsTheOthers ==
    RootIsProtected =>
        /\ \A i \in 1..Len(killLog) :
              /\ killLog[i].target \notin {pid, current_pid} \cup ancestor_pids
              /\ killLog[i].phase = "pass"
        /\ PassOver =>
              \A p \in Range(all_pids) :
                  (p # current_pid /\ p \notin ancestor_pids) =>
                      \E i \in 1..Len(killLog) : killLog[i].target = p

C28_Witness ==
    /\ RootIsProtected
    /\ pid \in ancestor_pids
    /\ current_pid \in Range(all_pids)
    /\ PassOver
    /\ pc = "done"
    /\ Len(killLog) >= 2

C30_StaticPortNeverZero == dp_result # NotCalled => dp_result # <<0>>
====
